---------------------------- MODULE Spec2Model ----------------------------
(***************************************************************************)
(* A model of the two-pass assembler: process_file drives the first pass,  *)
(* the rebasing of DATA symbols, the second pass and the output writer     *)
(* over the lines of one .am file.  Source lines are C strings, modelled   *)
(* as TLA+ strings and read character by character with 0-based indices   *)
(* as the C code reads them.                                               *)
(***************************************************************************)
EXTENDS Integers, Sequences, FiniteSets, TLC

(***************************************************************************)
(* Program constants (globals.h).                                          *)
(***************************************************************************)
CODE_ARR_IMG_LENGTH == 1200
IC_INIT_VALUE == 100
MAX_LABEL_LENGTH == 31
SIZE_LINE == 82
TABLE_SIZE == 100

(***************************************************************************)
(* Bounds of the model: the number of lines of the small input files, and  *)
(* the shape of the one large input file (BigLines lines of a .string      *)
(* directive with BigStrLen characters each) that fills the data image.    *)
(***************************************************************************)
MaxLines == 3
BigLines == 21
BigStrLen == 60
\* the pre-processor: lines of the small .as files, and the body lines of the
\* one large macro definition
MaxSource == 4
BigBody == 83

(***************************************************************************)
(* Characters.  NUL is the terminating '\0' of a C string: reading at the  *)
(* length of the string yields it.                                         *)
(***************************************************************************)
NUL == ""
Ch(s, i) == IF i >= 0 /\ i < Len(s) THEN SubSeq(s, i + 1, i + 1) ELSE NUL
From(s, i) == IF i >= Len(s) THEN "" ELSE SubSeq(s, i + 1, Len(s))
Slice(s, i, j) == IF j <= i THEN "" ELSE SubSeq(s, i + 1, j)

Letters == "abcdefghijklmnopqrstuvwxyzABCDEFGHIJKLMNOPQRSTUVWXYZ"
Digits == "0123456789"
Low == " !\"#$%&'()*+,-./0123456789:;<=>?@ABCDEFGHIJKLMNOPQRSTUVWXYZ[\\]"
High == "abcdefghijklmnopqrstuvwxyz{|}~"
AlphaSet == {SubSeq(Letters, k, k) : k \in 1..Len(Letters)}
DigitSet == {SubSeq(Digits, k, k) : k \in 1..Len(Digits)}
LowSet == {SubSeq(Low, k, k) : k \in 1..Len(Low)}
isalpha(c) == c \in AlphaSet
isdigit(c) == c \in DigitSet
DigitVal(c) == (CHOOSE k \in 1..10 : SubSeq(Digits, k, k) = c) - 1
\* the value of a char converted to long (ASCII; Low starts at 32, High at 97)
Ord(c) == IF c = "\n" THEN 10 ELSE IF c = "\t" THEN 9
          ELSE IF c \in LowSet
               THEN 31 + (CHOOSE k \in 1..Len(Low) : SubSeq(Low, k, k) = c)
               ELSE 96 + (CHOOSE k \in 1..Len(High) : SubSeq(High, k, k) = c)

RECURSIVE Rep(_, _)
Rep(c, n) == IF n = 0 THEN "" ELSE c \o Rep(c, n - 1)

RECURSIVE MOVE_TO_NOT_WHITE(_, _)
MOVE_TO_NOT_WHITE(s, i) ==
    IF Ch(s, i) = "\t" \/ Ch(s, i) = " " THEN MOVE_TO_NOT_WHITE(s, i + 1) ELSE i

\* the index of the first character at or after i that is NUL or in stops
RECURSIVE ScanTo(_, _, _)
ScanTo(s, i, stops) ==
    IF Ch(s, i) = NUL \/ Ch(s, i) \in stops THEN i ELSE ScanTo(s, i + 1, stops)

\* strchr(s, c): the index of the first c, or -1 for NULL
strchr(s, c) == LET k == ScanTo(s, 0, {c}) IN IF Ch(s, k) = c THEN k ELSE -1
\* strrchr(s, c): the index of the last c, or -1 for NULL
strrchr(s, c) ==
    LET hits == {k \in 0..(Len(s) - 1) : Ch(s, k) = c}
    IN IF hits = {} THEN -1 ELSE CHOOSE k \in hits : \A h \in hits : h <= k

(***************************************************************************)
(* Bit operations on non-negative integers.                                *)
(***************************************************************************)
RECURSIVE BitOr(_, _)
BitOr(a, b) ==
    IF a = 0 THEN b
    ELSE IF b = 0 THEN a
    ELSE (IF a % 2 = 1 \/ b % 2 = 1 THEN 1 ELSE 0) + 2 * BitOr(a \div 2, b \div 2)

(***************************************************************************)
(* Enumerations (globals.h, table.h).                                      *)
(***************************************************************************)
IMMEDIATE_ADDR == 0
DIRECT_ADDR == 1
REGISTER_INDIRECT_ADDR == 2
REGISTER_ADDR == 3
NONE_ADDR == -1
NONE_OP == -1
NONE_REG == -1
NONE_FUNCT == 0

CODE_SYMBOL == "CODE"
DATA_SYMBOL == "DATA"
EXTERNAL_SYMBOL == "EXTERNAL"
EXTERNAL_REFERENCE == "EXTERNAL_REFERENCE"
ENTRY_SYMBOL == "ENTRY"

DATA_INST == "DATA_INST"
EXTERN_INST == "EXTERN_INST"
ENTRY_INST == "ENTRY_INST"
STRING_INST == "STRING_INST"
NONE_INST == "NONE_INST"
ERROR_INST == "ERROR_INST"

(***************************************************************************)
(* Lexical helpers (utils.c, code.c).                                      *)
(***************************************************************************)
\* lookup_table of code.c: <<cmd, opcode, funct>>
lookup_table ==
    << <<"mov", 0, 0>>, <<"cmp", 1, 0>>, <<"add", 2, 1>>, <<"sub", 3, 2>>,
       <<"lea", 4, 0>>, <<"clr", 5, 1>>, <<"not", 6, 2>>, <<"inc", 7, 3>>,
       <<"dec", 8, 4>>, <<"jmp", 9, 1>>, <<"bne", 10, 2>>, <<"jsr", 13, 3>>,
       <<"red", 11, 0>>, <<"prn", 12, 0>>, <<"rts", 14, 0>>, <<"stop", 15, 0>> >>

get_opcode_func(cmd) ==
    LET hits == {k \in 1..Len(lookup_table) : lookup_table[k][1] = cmd}
    IN IF hits = {} THEN [op |-> NONE_OP, fun |-> NONE_FUNCT]
       ELSE LET k == CHOOSE h \in hits : \A g \in hits : h <= g
            IN [op |-> lookup_table[k][2], fun |-> lookup_table[k][3]]

get_register_by_name(name) ==
    IF Ch(name, 0) = "r" /\ isdigit(Ch(name, 1)) /\ Ch(name, 2) = NUL
       /\ DigitVal(Ch(name, 1)) <= 7
    THEN DigitVal(Ch(name, 1)) ELSE NONE_REG

is_register_indirect_addr(name) ==
    Ch(name, 0) = "*" /\ get_register_by_name(From(name, 1)) # NONE_REG

find_instruction_by_name(name) ==
    CASE name = "string" -> STRING_INST
      [] name = "data" -> DATA_INST
      [] name = "entry" -> ENTRY_INST
      [] name = "extern" -> EXTERN_INST
      [] OTHER -> NONE_INST

is_int(string) ==
    LET s == IF Ch(string, 0) = "-" \/ Ch(string, 0) = "+" THEN From(string, 1) ELSE string
    IN Len(s) > 0 /\ \A k \in 0..(Len(s) - 1) : isdigit(Ch(s, k))

\* strtol(s, &p, 10) of a string that starts with an optional sign and digits
RECURSIVE DigitsValue(_, _, _)
DigitsValue(s, i, acc) ==
    IF isdigit(Ch(s, i)) THEN DigitsValue(s, i + 1, 10 * acc + DigitVal(Ch(s, i))) ELSE acc
strtol(s) ==
    IF Ch(s, 0) = "-" THEN 0 - DigitsValue(s, 1, 0)
    ELSE IF Ch(s, 0) = "+" THEN DigitsValue(s, 1, 0)
    ELSE DigitsValue(s, 0, 0)

is_alphanumeric_str(string) ==
    \A k \in 0..(Len(string) - 1) : isalpha(Ch(string, k)) \/ isdigit(Ch(string, k))

is_reserved_word(name) ==
    \/ get_opcode_func(name).op # NONE_OP
    \/ get_register_by_name(name) # NONE_REG
    \/ find_instruction_by_name(name) # NONE_INST
    \/ is_register_indirect_addr(name)

is_valid_label_name(name) ==
    /\ Ch(name, 0) # NUL
    /\ Len(name) <= MAX_LABEL_LENGTH
    /\ isalpha(Ch(name, 0))
    /\ is_alphanumeric_str(From(name, 1))
    /\ ~is_reserved_word(name)

\* find_label: ret is the function's result (TRUE on an invalid label name),
\* symbol the buffer it fills, err the diagnostic it prints (or "")
find_label(content) ==
    LET i == MOVE_TO_NOT_WHITE(content, 0)
        k == ScanTo(content, i, {":"})
        dest == Slice(content, i, k)
    IN IF Ch(content, k) = ":"
       THEN IF ~is_valid_label_name(dest)
            THEN [ret |-> TRUE, symbol |-> "", err |-> "Invalid label name"]
            ELSE [ret |-> FALSE, symbol |-> dest, err |-> ""]
       ELSE [ret |-> FALSE, symbol |-> "", err |-> ""]

get_addressing_type(operand) ==
    IF Ch(operand, 0) = NUL THEN NONE_ADDR
    ELSE IF Ch(operand, 0) = "#" /\ is_int(From(operand, 1)) THEN IMMEDIATE_ADDR
    ELSE IF Ch(operand, 0) = "*" /\ Ch(operand, 1) = "r" /\ isdigit(Ch(operand, 2))
            /\ DigitVal(Ch(operand, 2)) <= 7 /\ Ch(operand, 3) = NUL
         THEN REGISTER_INDIRECT_ADDR
    ELSE IF Ch(operand, 0) = "r" /\ isdigit(Ch(operand, 1))
            /\ DigitVal(Ch(operand, 1)) <= 7 /\ Ch(operand, 2) = NUL
         THEN REGISTER_ADDR
    ELSE IF is_valid_label_name(operand) THEN DIRECT_ADDR
    ELSE NONE_ADDR

\* analyze_operands: the operands of an instruction from index i on.  ok is
\* the function's result, operands what it stored in destination[] and
\* err the diagnostic it printed (or "")
RECURSIVE analyze_loop(_, _, _)
analyze_loop(content, i, ops) ==
    IF Ch(content, i) = "\n" \/ Ch(content, i) = NUL
    THEN [ok |-> TRUE, operands |-> ops, err |-> ""]
    ELSE IF Len(ops) = 2
    THEN [ok |-> FALSE, operands |-> ops, err |-> "Too many operands for operation"]
    ELSE LET e == ScanTo(content, i, {"\t", " ", "\n", ","})
             now == Append(ops, Slice(content, i, e))
             a == MOVE_TO_NOT_WHITE(content, e)
             b == MOVE_TO_NOT_WHITE(content, a + 1)
         IN IF Ch(content, a) = "\n" \/ Ch(content, a) = NUL
            THEN [ok |-> TRUE, operands |-> now, err |-> ""]
            ELSE IF Ch(content, a) # ","
            THEN [ok |-> FALSE, operands |-> now, err |-> "Expecting ',' between operands"]
            ELSE IF Ch(content, b) = "\n" \/ Ch(content, b) = NUL
            THEN [ok |-> FALSE, operands |-> now, err |-> "Missing operand after comma."]
            ELSE IF Ch(content, b) = ","
            THEN [ok |-> FALSE, operands |-> now, err |-> "Multiple consecutive commas."]
            ELSE analyze_loop(content, b, now)

analyze_operands(content, i0) ==
    LET i == MOVE_TO_NOT_WHITE(content, i0)
    IN IF Ch(content, i) = ","
       THEN [ok |-> FALSE, operands |-> <<>>, err |-> "Unexpected comma after command."]
       ELSE analyze_loop(content, i, <<>>)

(***************************************************************************)
(* The symbol table (table.c): a linked list, modelled as the sequence of  *)
(* its entries [key, value, type] from the head on.                        *)
(***************************************************************************)
\* add_table_item putting every new entry at the head of the list
add_table_item_head(tab, key, value, type) ==
    <<[key |-> key, value |-> value, type |-> type]>> \o tab

add_table_item(tab, key, value, type) ==
    LET new_entry == [key |-> key, value |-> value, type |-> type]
    IN IF tab = <<>> \/ tab[1].value > value
       THEN <<new_entry>> \o tab
       ELSE LET stops == {p \in 2..Len(tab) : ~(tab[p].value < value)}
                at == IF stops = {} THEN Len(tab) + 1
                      ELSE CHOOSE p \in stops : \A q \in stops : p <= q
            IN SubSeq(tab, 1, at - 1) \o <<new_entry>> \o SubSeq(tab, at, Len(tab))

\* add_value_to_type without its test of the entry's type
add_value_to_type_every(tab, to_add, type) ==
    [p \in 1..Len(tab) |-> [tab[p] EXCEPT !.value = @ + to_add]]

add_value_to_type(tab, to_add, type) ==
    [p \in 1..Len(tab) |->
        IF tab[p].type = type THEN [tab[p] EXCEPT !.value = @ + to_add] ELSE tab[p]]

\* find_by_types looking at the head of the list alone
find_by_types_head(tab, key, types) ==
    IF tab # <<>> /\ tab[1].type \in types /\ tab[1].key = key THEN 1 ELSE 0

\* find_by_types: the position of the first entry with this key and one of
\* the types, 0 for NULL
find_by_types(tab, key, types) ==
    LET hits == {p \in 1..Len(tab) : tab[p].type \in types /\ tab[p].key = key}
    IN IF hits = {} THEN 0 ELSE CHOOSE p \in hits : \A q \in hits : p <= q

\* filter_table_by_type of a table that is not NULL
RECURSIVE filter_from(_, _, _, _)
filter_from(tab, p, type, new_table) ==
    IF p > Len(tab) THEN new_table
    ELSE filter_from(tab, p + 1, type,
            IF tab[p].type = type
            THEN add_table_item(new_table, tab[p].key, tab[p].value, tab[p].type)
            ELSE new_table)
filter_table_by_type(tab, type) == filter_from(tab, 1, type, <<>>)

(***************************************************************************)
(* Machine words (globals.h, code.c).  A slot of the code image is a       *)
(* pointer to a machine_word; a machine_word is a record with its length   *)
(* and the fields of the code_word or data_word it points to.              *)
(***************************************************************************)
\* validate_op_addr without its test of the second operand
validate_op_addr_first(op1_addressing, op2_addressing, op1_valids, op2_valids) ==
    IF ~((op1_valids = {} /\ op1_addressing = NONE_ADDR) \/ op1_addressing \in op1_valids)
    THEN [ok |-> FALSE, err |-> "Invalid addressing mode for first operand."]
    ELSE [ok |-> TRUE, err |-> ""]

validate_op_addr(op1_addressing, op2_addressing, op1_valids, op2_valids) ==
    IF ~((op1_valids = {} /\ op1_addressing = NONE_ADDR) \/ op1_addressing \in op1_valids)
    THEN [ok |-> FALSE, err |-> "Invalid addressing mode for first operand."]
    ELSE IF ~((op2_valids = {} /\ op2_addressing = NONE_ADDR) \/ op2_addressing \in op2_valids)
    THEN [ok |-> FALSE, err |-> "Invalid addressing mode for second operand."]
    ELSE [ok |-> TRUE, err |-> ""]

AllAddr == {IMMEDIATE_ADDR, DIRECT_ADDR, REGISTER_INDIRECT_ADDR, REGISTER_ADDR}

validate_operand_by_opcode(first_addressing, second_addressing, curr_opcode, op_count) ==
    IF curr_opcode >= 0 /\ curr_opcode <= 4
    THEN IF op_count # 2
         THEN [ok |-> FALSE, err |-> "Operation requires 2 operands"]
         ELSE IF curr_opcode = 1
         THEN validate_op_addr(first_addressing, second_addressing, AllAddr, AllAddr)
         ELSE IF curr_opcode = 2 \/ curr_opcode = 0
         THEN IF first_addressing = NONE_ADDR \/ second_addressing = NONE_ADDR
              THEN [ok |-> FALSE, err |-> "Invalid operand addressing type."]
              ELSE validate_op_addr(first_addressing, second_addressing, AllAddr,
                        {DIRECT_ADDR, REGISTER_ADDR, REGISTER_INDIRECT_ADDR})
         ELSE IF curr_opcode = 4
         THEN validate_op_addr(first_addressing, second_addressing,
                        {DIRECT_ADDR, REGISTER_INDIRECT_ADDR},
                        {DIRECT_ADDR, REGISTER_ADDR, REGISTER_INDIRECT_ADDR})
         ELSE validate_op_addr(first_addressing, second_addressing, AllAddr,
                        {DIRECT_ADDR, REGISTER_INDIRECT_ADDR, REGISTER_ADDR})
    ELSE IF curr_opcode >= 5 /\ curr_opcode <= 13
    THEN IF op_count # 1
         THEN [ok |-> FALSE,
               err |-> IF op_count < 1 THEN "Operation requires 1 operand" ELSE ""]
         ELSE IF curr_opcode \in {11, 5, 6, 7, 8}
         THEN validate_op_addr(first_addressing, NONE_ADDR,
                        {DIRECT_ADDR, REGISTER_ADDR, REGISTER_INDIRECT_ADDR}, {})
         ELSE IF curr_opcode \in {9, 10, 13}
         THEN validate_op_addr(first_addressing, NONE_ADDR,
                        {DIRECT_ADDR, REGISTER_INDIRECT_ADDR}, {})
         ELSE validate_op_addr(first_addressing, NONE_ADDR, AllAddr, {})
    ELSE IF (curr_opcode = 15 \/ curr_opcode = 14) /\ op_count > 0
    THEN [ok |-> FALSE, err |-> "Operation requires no operands"]
    ELSE [ok |-> TRUE, err |-> ""]

\* get_code_word: word is the code_word built (its bit-fields keep their
\* widths), or ok = FALSE for NULL
get_code_word(curr_opcode, curr_funct, op_count, operands) ==
    LET first_addressing ==
            IF op_count >= 1 THEN get_addressing_type(operands[1]) ELSE NONE_ADDR
        second_addressing ==
            IF op_count = 2 THEN get_addressing_type(operands[2]) ELSE NONE_ADDR
        v == validate_operand_by_opcode(first_addressing, second_addressing,
                                        curr_opcode, op_count)
    IN IF ~v.ok THEN [ok |-> FALSE, err |-> v.err]
       ELSE [ok |-> TRUE, err |-> "",
             word |-> [opcode |-> curr_opcode % 64,
                       funct |-> curr_funct % 32,
                       ARE |-> 4,
                       src_addressing |-> first_addressing % 4,
                       dest_addressing |-> second_addressing % 4,
                       src_register |->
                           IF first_addressing = REGISTER_ADDR
                           THEN get_register_by_name(operands[1]) % 8 ELSE 0,
                       dest_register |->
                           IF second_addressing = REGISTER_ADDR
                           THEN get_register_by_name(operands[2]) % 8 ELSE 0]]

build_data_word_immediate(value) == [ARE |-> 4, data |-> value % 4096]
build_data_word_register(reg) == [ARE |-> 4, data |-> reg % 16]
build_data_word_direct(value, is_extern_symbol) ==
    [ARE |-> IF is_extern_symbol THEN 1 ELSE 4, data |-> value % 4096]


(***************************************************************************)
(* The code image is machine_word *code_img[CODE_ARR_IMG_LENGTH], a local  *)
(* array of process_file that is never initialised.  It is modelled as a   *)
(* function from the slots that have been written, or whose initial        *)
(* content has been read, to a pointer: NULLP, GARBAGE (a non-null value   *)
(* that points to no machine_word) or a machine_word.  A slot outside the  *)
(* domain still holds its indeterminate initial content.                   *)
(***************************************************************************)
NULLP == [tag |-> "null"]
GARBAGE == [tag |-> "garbage"]
code_machine_word(w) == [tag |-> "word", length |-> 1, word |-> w]
data_machine_word(dw) == [tag |-> "word", length |-> 0, word |-> dw]
Store(img, k, v) == [x \in (DOMAIN img) \cup {k} |-> IF x = k THEN v ELSE img[x]]
\* is_register_mode taking register-direct alone for a register mode
is_register_mode_direct_only(a) == a = REGISTER_ADDR

is_register_mode(a) == a = REGISTER_INDIRECT_ADDR \/ a = REGISTER_ADDR

(***************************************************************************)
(* First pass (first_pass.c, instructions.c).                              *)
(***************************************************************************)
\* build_extra_codeword_fpass.  build_data_word_register and
\* build_data_word_immediate take one parameter and are called with three
\* arguments, the addressing type first: the parameter receives the first.
\* data is an unsigned long; the model keeps its low 30 bits (write_ob reads
\* the low 15).
build_extra_codeword_fpass(img, ic, operands) ==
    LET op_addr1 == get_addressing_type(operands[1])
        op_addr2 == IF Len(operands) = 2 THEN get_addressing_type(operands[2])
                    ELSE NONE_ADDR
        reg2 == get_register_by_name(operands[2])
    IN IF op_addr1 # NONE_ADDR /\ is_register_mode(op_addr1) /\ is_register_mode(op_addr2)
       THEN LET dw == build_data_word_register(op_addr1)
                both == [dw EXCEPT !.data = BitOr(@, (reg2 * 64) % (2 ^ 30))]
            IN [ic |-> ic + 1,
                code_img |-> Store(img, ic + 1 - IC_INIT_VALUE, data_machine_word(both))]
       ELSE LET ic1 == IF op_addr1 # NONE_ADDR THEN ic + 1 ELSE ic
                img1 == IF is_register_mode(op_addr1)
                        THEN Store(img, ic1 - IC_INIT_VALUE,
                                   data_machine_word(build_data_word_register(op_addr1)))
                        ELSE IF op_addr1 = IMMEDIATE_ADDR
                        THEN Store(img, ic1 - IC_INIT_VALUE,
                                   data_machine_word(build_data_word_immediate(op_addr1)))
                        ELSE img
                ic2 == IF op_addr2 # NONE_ADDR THEN ic1 + 1 ELSE ic1
                img2 == IF is_register_mode(op_addr2)
                        THEN Store(img1, ic2 - IC_INIT_VALUE,
                                   data_machine_word(build_data_word_register(op_addr2)))
                        ELSE IF op_addr2 = IMMEDIATE_ADDR
                        THEN Store(img1, ic2 - IC_INIT_VALUE,
                                   data_machine_word(build_data_word_immediate(op_addr2)))
                        ELSE img1
            IN [ic |-> ic2, code_img |-> img2]

\* process_code: ret is the function's result, errs the diagnostics printed
process_code(content, i0, ic, img) ==
    LET i == MOVE_TO_NOT_WHITE(content, i0)
        stop == ScanTo(content, i, {"\t", " ", "\n"})
        e == IF stop < i + 6 THEN stop ELSE i + 6
        operation == Slice(content, i, e)
        same == [ic |-> ic, code_img |-> img]
        Extra(ex) ==
            [ret |-> TRUE, errs |-> <<>>, ic |-> ex.ic + 1,
             code_img |-> [ex.code_img EXCEPT ![ic - IC_INIT_VALUE].length =
                                                 ex.ic + 1 - ic]]
        Words(cw, operands) ==
            IF ~cw.ok
            THEN [ret |-> FALSE, errs |-> IF cw.err = "" THEN <<>> ELSE <<cw.err>>] @@ same
            ELSE IF Len(operands) > 0
            THEN Extra(build_extra_codeword_fpass(
                           Store(img, ic - IC_INIT_VALUE, code_machine_word(cw.word)),
                           ic, operands))
            ELSE Extra([ic |-> ic,
                        code_img |-> Store(img, ic - IC_INIT_VALUE,
                                           code_machine_word(cw.word))])
        Operands(of, an) ==
            IF ~an.ok THEN [ret |-> FALSE, errs |-> <<an.err>>] @@ same
            ELSE Words(get_code_word(of.op, of.fun, Len(an.operands), an.operands),
                       an.operands)
        Operation(of) ==
            IF of.op = NONE_OP
            THEN [ret |-> FALSE, errs |-> <<"Unrecognized instruction">>] @@ same
            ELSE Operands(of, analyze_operands(content, e))
    IN Operation(get_opcode_func(operation))

find_instruction_from_index(content, index0) ==
    LET index == MOVE_TO_NOT_WHITE(content, index0)
        e == ScanTo(content, index, {"\t", " "})
        temp == Slice(content, index, e)
        result == find_instruction_by_name(From(temp, 1))
    IN IF Ch(content, index) # "." THEN [inst |-> NONE_INST, index |-> index, err |-> ""]
       ELSE IF result # NONE_INST THEN [inst |-> result, index |-> e, err |-> ""]
       ELSE [inst |-> ERROR_INST, index |-> e, err |-> "Invalid instruction name"]

\* the characters from index up to the end of the line, as longs
RECURSIVE string_chars(_, _)
string_chars(content, index) ==
    IF Ch(content, index) = NUL \/ Ch(content, index) = "\n" THEN <<>>
    ELSE <<Ord(Ch(content, index))>> \o string_chars(content, index + 1)

process_string_instruction(content, index0, data_img, dc) ==
    LET last_quote_location == strrchr(content, "\"")
        index == MOVE_TO_NOT_WHITE(content, index0)
        same == [data_img |-> data_img, dc |-> dc]
    IN IF Ch(content, index) # "\""
       THEN [ret |-> FALSE, errs |-> <<"Missing opening quote of string">>] @@ same
       ELSE IF index = last_quote_location
       THEN [ret |-> FALSE, errs |-> <<"Missing closing quote of string">>] @@ same
       ELSE LET chars == string_chars(content, index + 1)
            IN [ret |-> TRUE, errs |-> <<>>,
                data_img |-> data_img \o chars, dc |-> dc + Len(chars)]

RECURSIVE data_loop(_, _, _, _)
data_loop(content, index, data_img, errs) ==
    LET e == ScanTo(content, index, {"\t", " ", ",", "\n"})
        temp == Slice(content, index, e)
        now == Append(data_img, strtol(temp))
        a == MOVE_TO_NOT_WHITE(content, e)
        b == MOVE_TO_NOT_WHITE(content, a + 1)
    IN IF ~is_int(temp)
       THEN [ret |-> FALSE, data_img |-> data_img,
             errs |-> Append(errs, "Expected integer for .data instruction")]
       ELSE IF Ch(content, a) = ","
       THEN IF Ch(content, b) # "\n"
            THEN data_loop(content, b, now, errs)
            ELSE [ret |-> TRUE, data_img |-> now, errs |-> errs]
       ELSE IF Ch(content, a) = NUL \/ Ch(content, a) = "\n"
       THEN [ret |-> TRUE, data_img |-> now, errs |-> errs]
       ELSE data_loop(content, a, now, errs)

\* process_data_instruction counting one value for the whole list
process_data_instruction_once(content, index0, data_img, dc) ==
    LET index == MOVE_TO_NOT_WHITE(content, index0)
        r == data_loop(content, index, data_img,
                       IF Ch(content, index) = ","
                       THEN <<"Unexpected comma after .data instruction">> ELSE <<>>)
    IN [ret |-> r.ret, errs |-> r.errs, data_img |-> r.data_img,
        dc |-> IF Len(r.data_img) > Len(data_img) THEN dc + 1 ELSE dc]

process_data_instruction(content, index0, data_img, dc) ==
    LET index == MOVE_TO_NOT_WHITE(content, index0)
        r == data_loop(content, index, data_img,
                       IF Ch(content, index) = ","
                       THEN <<"Unexpected comma after .data instruction">> ELSE <<>>)
    IN [ret |-> r.ret, errs |-> r.errs, data_img |-> r.data_img,
        dc |-> dc + (Len(r.data_img) - Len(data_img))]


\* a diagnostic of printf_line_error: the message and the string it names
Err(msg, arg) == [msg |-> msg, arg |-> arg]
Errs(msgs) == [k \in 1..Len(msgs) |-> Err(msgs[k], "")]

\* process_line_fpass: ret is the function's result, errs the diagnostics
\* printed, the other fields the values of *IC, *DC, code_img, data_img and
\* *symbol_table when it returns
process_line_fpass(content, IC, DC, img, data_img, tab) ==
    LET i0 == MOVE_TO_NOT_WHITE(content, 0)
        same == [ic |-> IC, dc |-> DC, code_img |-> img, data_img |-> data_img,
                 symbol_table |-> tab]
        Data(r, tab1) ==
            [ret |-> r.ret, errs |-> Errs(r.errs), ic |-> IC, dc |-> r.dc,
             code_img |-> img, data_img |-> r.data_img, symbol_table |-> tab1]
        Code(r, tab1) ==
            [ret |-> r.ret, errs |-> Errs(r.errs), ic |-> r.ic, dc |-> DC,
             code_img |-> r.code_img, data_img |-> data_img, symbol_table |-> tab1]
        Extern(ext) ==
            IF ~is_valid_label_name(ext)
            THEN [ret |-> TRUE, errs |-> <<Err("Invalid external label name", ext)>>] @@ same
            ELSE [ret |-> TRUE, errs |-> <<>>,
                  symbol_table |-> add_table_item(tab, ext, 0, EXTERNAL_SYMBOL)] @@ same
        Instruction(symbol, fi, i3) ==
            IF fi.inst = ERROR_INST
            THEN [ret |-> FALSE, errs |-> <<Err(fi.err, "")>>] @@ same
            ELSE IF fi.inst = STRING_INST
            THEN Data(process_string_instruction(content, i3, data_img, DC),
                      IF symbol # "" THEN add_table_item(tab, symbol, DC, DATA_SYMBOL)
                      ELSE tab)
            ELSE IF fi.inst = DATA_INST
            THEN Data(process_data_instruction(content, i3, data_img, DC),
                      IF symbol # "" THEN add_table_item(tab, symbol, DC, DATA_SYMBOL)
                      ELSE tab)
            ELSE IF fi.inst = EXTERN_INST
            THEN Extern(Slice(content, i3, ScanTo(content, i3, {"\n", "\t", " "})))
            ELSE IF fi.inst = ENTRY_INST
            THEN IF symbol # ""
                 THEN [ret |-> FALSE,
                       errs |-> <<Err("Can't define a label to an entry instruction.",
                                      "")>>] @@ same
                 ELSE [ret |-> TRUE, errs |-> <<>>] @@ same
            ELSE Code(process_code(content, i3, IC, img),
                      IF symbol # "" THEN add_table_item(tab, symbol, IC, CODE_SYMBOL)
                      ELSE tab)
        Found(symbol, fi) == Instruction(symbol, fi, MOVE_TO_NOT_WHITE(content, fi.index))
        Labelled(symbol, i2) ==
            IF Ch(content, i2) = "\n"
            THEN [ret |-> TRUE, errs |-> <<>>] @@ same
            ELSE IF find_by_types(tab, symbol,
                                  {EXTERNAL_SYMBOL, DATA_SYMBOL, CODE_SYMBOL}) # 0
            THEN [ret |-> FALSE,
                  errs |-> <<Err("Symbol is already defined.", symbol)>>] @@ same
            ELSE Found(symbol, find_instruction_from_index(content, i2))
        Label(fl) ==
            IF fl.ret
            THEN [ret |-> FALSE, errs |-> <<Err(fl.err, "")>>] @@ same
            ELSE Labelled(fl.symbol,
                          MOVE_TO_NOT_WHITE(content,
                              IF fl.symbol # "" THEN ScanTo(content, i0, {":"}) + 1
                              ELSE i0))
    IN IF Ch(content, i0) = NUL \/ Ch(content, i0) = "\n" \/ Ch(content, i0) = ";"
       THEN [ret |-> TRUE, errs |-> <<>>] @@ same
       ELSE Label(find_label(content))

(***************************************************************************)
(* Second pass (second_pass.c).                                            *)
(***************************************************************************)
\* process_direct_operand recording a reference for every symbol it finds
process_direct_operand_every(curr_ic, operand, img, tab) ==
    LET entry == find_by_types(tab, operand, {DATA_SYMBOL, CODE_SYMBOL, EXTERNAL_SYMBOL})
    IN IF entry = 0
       THEN [ret |-> FALSE, errs |-> <<Err("The symbol not found", operand)>>,
             code_img |-> img, symbol_table |-> tab]
       ELSE [ret |-> TRUE, errs |-> <<>>,
             symbol_table |-> add_table_item(tab, operand, curr_ic + 1, EXTERNAL_REFERENCE),
             code_img |-> Store(img, curr_ic - IC_INIT_VALUE,
                                data_machine_word(
                                    build_data_word_direct(tab[entry].value,
                                        tab[entry].type = EXTERNAL_SYMBOL)))]

process_direct_operand(curr_ic, operand, img, tab) ==
    LET entry == find_by_types(tab, operand, {DATA_SYMBOL, CODE_SYMBOL, EXTERNAL_SYMBOL})
    IN IF entry = 0
       THEN [ret |-> FALSE, errs |-> <<Err("The symbol not found", operand)>>,
             code_img |-> img, symbol_table |-> tab]
       ELSE LET data_to_add == tab[entry].value
                is_extern == tab[entry].type = EXTERNAL_SYMBOL
            IN [ret |-> TRUE, errs |-> <<>>,
                symbol_table |-> IF is_extern
                                 THEN add_table_item(tab, operand, curr_ic + 1,
                                                     EXTERNAL_REFERENCE)
                                 ELSE tab,
                code_img |-> Store(img, curr_ic - IC_INIT_VALUE,
                                   data_machine_word(
                                       build_data_word_direct(data_to_add, is_extern)))]

\* process_spass_operand: curr_ic and ic are the same pointer
process_spass_operand(ic, operands, img, tab) ==
    LET addr1 == get_addressing_type(operands[1])
        addr2 == IF Len(operands) = 2 THEN get_addressing_type(operands[2]) ELSE NONE_ADDR
        ic1 == IF is_register_mode(addr1) \/ addr1 = IMMEDIATE_ADDR \/ addr1 = DIRECT_ADDR
               THEN ic + 1 ELSE ic
        d1 == IF addr1 = DIRECT_ADDR
              THEN process_direct_operand(ic1, operands[1], img, tab)
              ELSE [ret |-> TRUE, errs |-> <<>>, code_img |-> img, symbol_table |-> tab]
        ic2 == IF is_register_mode(addr2) \/ addr2 = IMMEDIATE_ADDR \/ addr2 = DIRECT_ADDR
               THEN ic1 + 1 ELSE ic1
        d2 == IF addr2 = DIRECT_ADDR
              THEN process_direct_operand(ic2, operands[2], d1.code_img, d1.symbol_table)
              ELSE [ret |-> TRUE, errs |-> <<>>, code_img |-> d1.code_img,
                    symbol_table |-> d1.symbol_table]
    IN IF is_register_mode(addr1) /\ addr2 # NONE_ADDR /\ is_register_mode(addr2)
       THEN [ret |-> TRUE, errs |-> <<>>, ic |-> ic + 1, code_img |-> img,
             symbol_table |-> tab]
       ELSE IF Len(operands) < 2
       THEN [ret |-> TRUE, errs |-> d1.errs, ic |-> ic1, code_img |-> d1.code_img,
             symbol_table |-> d1.symbol_table]
       ELSE [ret |-> TRUE, errs |-> d1.errs \o d2.errs, ic |-> ic2,
             code_img |-> d2.code_img, symbol_table |-> d2.symbol_table]

\* add_symbols_to_code; length is the value read from code_img[ic - 100]->length
add_symbols_to_code(content, ic, img, tab, length) ==
    LET i0 == MOVE_TO_NOT_WHITE(content, 0)
        Filled(r, lerrs) ==
            [ret |-> r.ret, errs |-> lerrs \o r.errs,
             ic |-> IF r.ret THEN r.ic + 1 ELSE r.ic,
             code_img |-> r.code_img, symbol_table |-> r.symbol_table]
        Operands(an, lerrs) ==
            IF Len(an.operands) > 0
            THEN Filled(process_spass_operand(ic, an.operands, img, tab),
                        lerrs \o (IF an.err # "" THEN <<Err(an.err, "")>> ELSE <<>>))
            ELSE [ret |-> TRUE,
                  errs |-> lerrs \o (IF an.err # "" THEN <<Err(an.err, "")>> ELSE <<>>),
                  ic |-> ic + 1, code_img |-> img, symbol_table |-> tab]
        Label(fl) ==
            Operands(analyze_operands(content,
                         MOVE_TO_NOT_WHITE(content,
                             ScanTo(content,
                                 MOVE_TO_NOT_WHITE(content,
                                     IF fl.symbol # ""
                                     THEN ScanTo(content, i0, {"\n", " ", "\t"}) + 1
                                     ELSE i0),
                                 {" ", "\t", "\n"}))),
                     IF fl.err # "" THEN <<Err(fl.err, "")>> ELSE <<>>)
    IN IF length > 0
       THEN Label(find_label(content))
       ELSE [ret |-> TRUE, errs |-> <<>>, ic |-> ic + 1, code_img |-> img,
             symbol_table |-> tab]

\* strtok(s + i, delims) for the first token: [found, start, end), and the
\* buffer with '\0' written over the delimiter that ends the token
strtok(s, i, delims) ==
    LET RECURSIVE skip(_)
        skip(k) == IF Ch(s, k) \in delims THEN skip(k + 1) ELSE k
        start == skip(i)
        e == ScanTo(s, start, delims)
    IN IF Ch(s, start) = NUL THEN [found |-> FALSE, buf |-> s]
       ELSE [found |-> TRUE, token |-> Slice(s, start, e), buf |-> Slice(s, 0, e)]

\* process_line_spass taking an external symbol too as the one .entry names
process_line_spass_directive_any(content, tab) ==
    LET i0 == MOVE_TO_NOT_WHITE(content, 0)
        indexOfColon == strchr(content, ":")
        i1 == IF indexOfColon # -1 THEN indexOfColon + 1 ELSE i0
        i2 == MOVE_TO_NOT_WHITE(content, i1)
        i3 == MOVE_TO_NOT_WHITE(content, i2 + 6)
        t1 == strtok(content, i3, {" ", "\n", "\t"})
        t2 == strtok(t1.buf, i3, {"\n"})
        token == IF Ch(t2.token, 0) = "&" THEN From(t2.token, 1) ELSE t2.token
        entry == find_by_types(tab, token, {DATA_SYMBOL, CODE_SYMBOL, EXTERNAL_SYMBOL})
        same == [handled |-> TRUE, symbol_table |-> tab]
    IN IF Ch(content, i0) = ";" \/ Ch(content, i0) = "\n"
       THEN [ret |-> TRUE, errs |-> <<>>, buf |-> content] @@ same
       ELSE IF Ch(content, i2) # "."
       THEN [handled |-> FALSE]
       ELSE IF Slice(content, 0, 6) # ".entry"
       THEN [ret |-> TRUE, errs |-> <<>>, buf |-> content] @@ same
       ELSE IF ~t1.found
       THEN [ret |-> FALSE, buf |-> content,
             errs |-> <<Err("You have to specify a label name for .entry instruction.",
                            "")>>] @@ same
       ELSE IF find_by_types(tab, t1.token, {ENTRY_SYMBOL}) # 0
       THEN [ret |-> TRUE, errs |-> <<>>, buf |-> t1.buf] @@ same
       ELSE IF entry = 0
       THEN IF find_by_types(tab, token, {EXTERNAL_SYMBOL}) # 0
            THEN [ret |-> FALSE, buf |-> t2.buf,
                  errs |-> <<Err("The symbol can be either external or entry, but not both.",
                                 token)>>] @@ same
            ELSE [ret |-> FALSE, buf |-> t2.buf,
                  errs |-> <<Err("The symbol for .entry is undefined.", token)>>] @@ same
       ELSE [ret |-> TRUE, errs |-> <<>>, buf |-> t2.buf, handled |-> TRUE,
             symbol_table |-> add_table_item(tab, token, tab[entry].value, ENTRY_SYMBOL)]

\* process_line_spass, when it does not reach add_symbols_to_code: handled is
\* FALSE when it does.  buf is the line buffer as strtok leaves it.
process_line_spass_directive(content, tab) ==
    LET i0 == MOVE_TO_NOT_WHITE(content, 0)
        indexOfColon == strchr(content, ":")
        i1 == IF indexOfColon # -1 THEN indexOfColon + 1 ELSE i0
        i2 == MOVE_TO_NOT_WHITE(content, i1)
        i3 == MOVE_TO_NOT_WHITE(content, i2 + 6)
        t1 == strtok(content, i3, {" ", "\n", "\t"})
        t2 == strtok(t1.buf, i3, {"\n"})
        token == IF Ch(t2.token, 0) = "&" THEN From(t2.token, 1) ELSE t2.token
        entry == find_by_types(tab, token, {DATA_SYMBOL, CODE_SYMBOL})
        same == [handled |-> TRUE, symbol_table |-> tab]
    IN IF Ch(content, i0) = ";" \/ Ch(content, i0) = "\n"
       THEN [ret |-> TRUE, errs |-> <<>>, buf |-> content] @@ same
       ELSE IF Ch(content, i2) # "."
       THEN [handled |-> FALSE]
       ELSE IF Slice(content, 0, 6) # ".entry"
       THEN [ret |-> TRUE, errs |-> <<>>, buf |-> content] @@ same
       ELSE IF ~t1.found
       THEN [ret |-> FALSE, buf |-> content,
             errs |-> <<Err("You have to specify a label name for .entry instruction.",
                            "")>>] @@ same
       ELSE IF find_by_types(tab, t1.token, {ENTRY_SYMBOL}) # 0
       THEN [ret |-> TRUE, errs |-> <<>>, buf |-> t1.buf] @@ same
       ELSE IF entry = 0
       THEN IF find_by_types(tab, token, {EXTERNAL_SYMBOL}) # 0
            THEN [ret |-> FALSE, buf |-> t2.buf,
                  errs |-> <<Err("The symbol can be either external or entry, but not both.",
                                 token)>>] @@ same
            ELSE [ret |-> FALSE, buf |-> t2.buf,
                  errs |-> <<Err("The symbol for .entry is undefined.", token)>>] @@ same
       ELSE [ret |-> TRUE, errs |-> <<>>, buf |-> t2.buf, handled |-> TRUE,
             symbol_table |-> add_table_item(tab, token, tab[entry].value, ENTRY_SYMBOL)]


(***************************************************************************)
(* The input: the .am file that process_file reads, a sequence of lines.   *)
(* Every line ends with a newline and is shorter than the buffers of both  *)
(* fgets calls, so that each fgets returns one whole line.                 *)
(***************************************************************************)
Lines ==
    { "X: stop\n", "Y: stop\n", "X: .data 7\n", ".data 5, 6\n", ".extern X\n",
      ".entry X\n", "jmp X\n", ".extern 1x\n", "mov r1\n",
      "X:\n", "mov #-5, r3\n", "add *r2, r5\n" }
BigLine == ".string \"" \o Rep("a", BigStrLen) \o "\"\n"
BigProgram == [k \in 1..BigLines |-> BigLine]
\* whole files: the worked examples
Examples ==
    { <<".extern K\n", "jmp K\n", "stop\n">>,
      <<"START: mov #-5, r3\n", "stop\n">>,
      <<"add r2, r5\n">>,
      <<".data 1,2,3\n">>,
      <<"X: stop\n", " .entry X\n">>,
      <<"X: add r1, *r2\n">>,
      <<"X: stop\n", ".entry X\n", ".entry X\n", ".entry Q\n">>,
      <<"S: .string \"ab\"\n", ".string \"c\"\n">>,
      <<".data ,1\n">>, <<".data 1,2,\n">>, <<".data 1,,2\n">>, <<".data 1 , , 2\n">>,
      <<"stop\n", "Z: .data -3 , +4,5\n", ".data 5, 6\n", "W: .data 0\n">>,
      <<"sub r1, r2\n">>, <<"not r1\n">>, <<"inc r1\n">>, <<"dec r1\n">>,
      <<"bne X\n">>, <<"jsr X\n">>, <<"red r1\n">>, <<"foo r1\n">>,
      <<"jmp *r4\n">>,
      <<"lea X, *r2\n">>,
      <<"prn #3\n", "mov r1, X\n", "X: mov X, X\n", "rts\n">>,
      <<"X: .data 7\n", "Y: stop\n", ".entry X\n", ".entry Y\n">>,
      <<"X: .data 7\n", "Y: stop\n", "mov X, r1\n", "cmp r1, #3\n", "lea X, *r2\n">> }
\* one-line files: every mnemonic with no operand, with one operand and with
\* two operands, the operands being one sample of each addressing mode and
\* one string that is no operand
OperandSamples == {"#3", "X", "*r2", "r1", "1x"}
InstructionLines ==
    {lookup_table[k][1] \o "\n" : k \in 1..Len(lookup_table)}
    \cup {lookup_table[k][1] \o " " \o a \o "\n" :
              k \in 1..Len(lookup_table), a \in OperandSamples}
    \cup {lookup_table[k][1] \o " " \o a \o ", " \o b \o "\n" :
              k \in 1..Len(lookup_table), a \in OperandSamples, b \in OperandSamples}
Programs ==
    (UNION {[1..n -> Lines] : n \in 0..MaxLines}) \cup {BigProgram} \cup Examples
    \cup {<<l>> : l \in InstructionLines}

VARIABLES
    file,          \* the lines of the .am file
    pc,            \* where process_file is: "fpass", "spass", "write",
                   \* "cleanup", "done"; "crashed" when the process died
    ln,            \* the number of the next line fgets returns
    eof,           \* feof(file_des)
    temp_line,     \* the line buffer
    ic, dc, icf, dcf,
    is_success,
    code_img, data_img, symbol_table,
    diag,          \* the diagnostics printed so far, in order
    oob,           \* an image array was written at an index outside it
    out            \* what write_output_files produced

\* the state of the pre-processor (macr.c)
VARIABLES
    as_file,       \* the lines of the .as file the user wrote
    input,         \* the lines of the file macro() is reading (fromUser)
    run,           \* 1: macro() reads the .as file; 2: it reads its own output
    mpc,           \* where macro() is: "read", "done"
    mln,           \* the number of the next line fgets returns
    isMacroOpen,
    currentMacro,  \* the Macro being defined, or NoMacro
    macro_table,   \* the hash table: bucket -> chain of Macro
    am_file        \* the lines written to outputFile so far

macro_vars == <<as_file, input, run, mpc, mln, isMacroOpen, currentMacro,
                macro_table, am_file>>

vars == <<file, pc, ln, eof, temp_line, ic, dc, icf, dcf, is_success,
          code_img, data_img, symbol_table, diag, oob, out, macro_vars>>

\* a Macro pointer: bucket b, position k in the chain; NoMacro is NULL
NoMacro == [b |-> -1, k |-> 0]
init_table == [b \in 0..(TABLE_SIZE - 1) |-> <<>>]

\* macro() is not running
MacroAtRest ==
    /\ as_file = <<>>
    /\ input = <<>>
    /\ run = 1
    /\ mpc = "done"
    /\ mln = 1
    /\ isMacroOpen = FALSE
    /\ currentMacro = NoMacro
    /\ macro_table = init_table
    /\ am_file = <<>>

NoOutput == [called |-> FALSE, written |-> FALSE, ob |-> <<>>, ext |-> <<>>, ent |-> <<>>]

Located(pass, line, errs) ==
    [k \in 1..Len(errs) |->
        [pass |-> pass, line |-> line, msg |-> errs[k].msg, arg |-> errs[k].arg]]

Init ==
    /\ file \in Programs
    /\ pc = "fpass"
    /\ ln = 1
    /\ eof = FALSE
    /\ temp_line = ""
    /\ ic = IC_INIT_VALUE
    /\ dc = 0
    /\ icf = 0
    /\ dcf = 0
    /\ is_success = TRUE
    /\ code_img = <<>>
    /\ data_img = <<>>
    /\ symbol_table = <<>>
    /\ diag = <<>>
    /\ oob = FALSE
    /\ out = NoOutput
    /\ MacroAtRest

\* process_file, one iteration of the first loop.  A write past the end of
\* an image array is undefined: the process dies or goes on.
FirstPassLine ==
    /\ UNCHANGED macro_vars
    /\ pc = "fpass"
    /\ ln <= Len(file)
    /\ \E r \in {process_line_fpass(file[ln], ic, dc, code_img, data_img, symbol_table)} :
          \E past \in {\/ r.dc > CODE_ARR_IMG_LENGTH
                       \/ \E k \in DOMAIN r.code_img : k >= CODE_ARR_IMG_LENGTH} :
             /\ temp_line' = file[ln]
             /\ ic' = r.ic
             /\ dc' = r.dc
             /\ code_img' = r.code_img
             /\ data_img' = r.data_img
             /\ symbol_table' = r.symbol_table
             /\ is_success' = (is_success /\ r.ret)
             /\ diag' = diag \o Located(1, ln, r.errs)
             /\ oob' = (oob \/ past)
             /\ pc' \in (IF past THEN {"fpass", "crashed"} ELSE {"fpass"})
    /\ ln' = ln + 1
    /\ UNCHANGED <<file, eof, icf, dcf, out>>

\* process_file between the two loops without its test of is_success: the
\* second pass runs whatever the first pass returned
EndFirstPass_always ==
    /\ UNCHANGED macro_vars
    /\ pc = "fpass"
    /\ ln > Len(file)
    /\ icf' = ic
    /\ dcf' = dc
    /\ ic' = IC_INIT_VALUE
    /\ symbol_table' = add_value_to_type(symbol_table, ic, DATA_SYMBOL)
    /\ ln' = 1
    /\ pc' = "spass"
    /\ UNCHANGED <<file, eof, temp_line, dc, is_success, code_img, data_img, diag, oob, out>>

\* process_file between the two loops: ICF, DCF, and when the first pass
\* succeeded the rebasing of the DATA symbols and the rewind
EndFirstPass ==
    /\ UNCHANGED macro_vars
    /\ pc = "fpass"
    /\ ln > Len(file)
    /\ icf' = ic
    /\ dcf' = dc
    /\ IF is_success
       THEN /\ ic' = IC_INIT_VALUE
            /\ symbol_table' = add_value_to_type(symbol_table, ic, DATA_SYMBOL)
            /\ ln' = 1
            /\ pc' = "spass"
       ELSE /\ pc' = "cleanup"
            /\ UNCHANGED <<ic, symbol_table, ln>>
    /\ UNCHANGED <<file, eof, temp_line, dc, is_success, code_img, data_img, diag, oob, out>>

\* the pointers a read of code_img[k] can yield
Observe(img, k) == IF k \in DOMAIN img THEN {img[k]} ELSE {NULLP, GARBAGE}

\* process_line_spass on the line buffer, v being the pointer in
\* code_img[ic - 100]: the set of its outcomes.  Reading the length through
\* a null pointer kills the process; through GARBAGE it kills it or yields
\* some length, positive or not.
process_line_spass(content, IC, img, tab, v) ==
    LET lengths == IF v = GARBAGE THEN {0, 1}
                   ELSE IF v = NULLP THEN {} ELSE {v.length}
        dead == [crash |-> TRUE, ret |-> TRUE, errs |-> <<>>, ic |-> IC,
                 code_img |-> img, symbol_table |-> tab, buf |-> content]
        Directive(d) ==
            IF d.handled
            THEN {[crash |-> FALSE, ret |-> d.ret, errs |-> d.errs, ic |-> IC,
                   code_img |-> img, symbol_table |-> d.symbol_table, buf |-> d.buf]}
            ELSE {[crash |-> FALSE, buf |-> content]
                      @@ add_symbols_to_code(content, IC, img, tab, n) : n \in lengths}
                 \cup (IF v = GARBAGE \/ v = NULLP THEN {dead} ELSE {})
    IN Directive(process_line_spass_directive(content, tab))

\* process_file, one iteration of the second loop: fgets (which leaves the
\* buffer as it is at the end of the file), the test of code_img[ic - 100]
\* and process_line_spass
SecondPassLine ==
    /\ UNCHANGED macro_vars
    /\ pc = "spass"
    /\ ~eof
    /\ LET got == ln <= Len(file)
           content == IF got THEN file[ln] ELSE temp_line
           k == ic - IC_INIT_VALUE
           i == MOVE_TO_NOT_WHITE(content, 0)
       IN /\ eof' = IF got THEN (ln = Len(file) /\ Ch(content, Len(content) - 1) # "\n")
                    ELSE TRUE
          /\ ln' = IF got THEN ln + 1 ELSE ln
          /\ \E v \in Observe(code_img, k) :
                IF v # NULLP \/ Ch(content, i) = "."
                THEN \E r \in process_line_spass(content, ic, Store(code_img, k, v),
                                                 symbol_table, v) :
                        /\ temp_line' = r.buf
                        /\ ic' = r.ic
                        /\ code_img' = r.code_img
                        /\ symbol_table' = r.symbol_table
                        /\ is_success' = (is_success /\ r.ret)
                        /\ diag' = diag \o Located(2, ln, r.errs)
                        /\ pc' = IF r.crash THEN "crashed" ELSE "spass"
                ELSE /\ temp_line' = content
                     /\ code_img' = Store(code_img, k, v)
                     /\ UNCHANGED <<ic, symbol_table, is_success, diag, pc>>
    /\ UNCHANGED <<file, dc, icf, dcf, data_img, oob, out>>

\* process_file after the second loop
EndSecondPass ==
    /\ UNCHANGED macro_vars
    /\ pc = "spass"
    /\ eof
    /\ pc' = IF is_success THEN "write" ELSE "cleanup"
    /\ UNCHANGED <<file, ln, eof, temp_line, ic, dc, icf, dcf, is_success,
                   code_img, data_img, symbol_table, diag, oob, out>>


(***************************************************************************)
(* The output writer (writefiles.c).                                       *)
(***************************************************************************)
KEEP_ONLY_15_LSB(value) == value % 32768

\* the value write_ob prints for a machine_word
word_value(mw) ==
    IF mw.length > 0
    THEN LET c == mw.word
         IN BitOr(BitOr(BitOr(c.opcode * 1024, c.src_addressing * 256),
                        BitOr(c.src_register * 64, c.dest_addressing * 8)),
                  BitOr(BitOr(c.dest_register, c.funct * 8), c.ARE))
    ELSE BitOr(KEEP_ONLY_15_LSB(mw.word.data) * 8, mw.word.ARE)

\* the code lines of write_ob from slot i on; val is the variable val, which
\* keeps its last value over a NULL slot; -1 stands for an indeterminate value
RECURSIVE ob_code_lines(_, _, _, _)
ob_code_lines(img, i, n, val) ==
    IF i >= n THEN <<>>
    ELSE LET now == IF img[i] = NULLP THEN val
                    ELSE IF img[i] = GARBAGE THEN -1
                    ELSE word_value(img[i])
         IN <<[addr |-> i + 100, val |-> now]>> \o ob_code_lines(img, i + 1, n, now)

write_ob(img, data, ICF, DCF) ==
    [header |-> <<ICF - IC_INIT_VALUE, DCF>>,
     lines |-> ob_code_lines(img, 0, ICF - IC_INIT_VALUE, -1)
               \o [i \in 1..DCF |-> [addr |-> ICF + i - 1,
                                     val |-> KEEP_ONLY_15_LSB(data[i])]]]

\* write_table_to_file: the lines it prints
write_table_to_file(tab) ==
    [p \in 1..Len(tab) |-> [key |-> tab[p].key, value |-> tab[p].value]]

\* process_file calling write_output_files.  filter_table_by_type reads
\* through the head of the symbol table, which is NULL when the table is
\* empty; write_ob reads every slot below ICF - 100, and through every
\* pointer that is not NULL.
WriteOutput ==
    /\ UNCHANGED macro_vars
    /\ pc = "write"
    /\ LET n == icf - IC_INIT_VALUE
           unread == {k \in 0..(n - 1) : k \notin DOMAIN code_img}
       IN IF symbol_table = <<>>
          THEN /\ pc' = "crashed"
               /\ out' = [NoOutput EXCEPT !.called = TRUE]
               /\ UNCHANGED <<code_img, is_success>>
          ELSE \E obs \in [unread -> {NULLP, GARBAGE}] :
                 LET img == [k \in (DOMAIN code_img) \cup unread |->
                                IF k \in unread THEN obs[k] ELSE code_img[k]]
                     wild == \E k \in 0..(n - 1) : img[k] = GARBAGE
                     externals == filter_table_by_type(symbol_table, EXTERNAL_REFERENCE)
                     entries == filter_table_by_type(symbol_table, ENTRY_SYMBOL)
                 IN /\ code_img' = img
                    /\ \E dies \in (IF wild THEN BOOLEAN ELSE {FALSE}) :
                          IF dies
                          THEN /\ pc' = "crashed"
                               /\ out' = [NoOutput EXCEPT !.called = TRUE]
                               /\ UNCHANGED is_success
                          ELSE /\ pc' = "cleanup"
                               /\ out' = [called |-> TRUE, written |-> TRUE,
                                          ob |-> write_ob(img, data_img, icf, dcf),
                                          ext |-> write_table_to_file(externals),
                                          ent |-> write_table_to_file(entries)]
                               /\ is_success' = TRUE
    /\ UNCHANGED <<file, ln, eof, temp_line, ic, dc, icf, dcf, data_img,
                   symbol_table, diag, oob>>

\* process_file's cleanup: free_code_image reads the first icf slots of the
\* code image, of which at most icf - 100 were written, and frees through
\* every pointer that is not NULL
Cleanup ==
    /\ UNCHANGED macro_vars
    /\ pc = "cleanup"
    /\ pc' \in {"done", "crashed"}
    /\ UNCHANGED <<file, ln, eof, temp_line, ic, dc, icf, dcf, is_success,
                   code_img, data_img, symbol_table, diag, oob, out>>

Next ==
    \/ FirstPassLine
    \/ EndFirstPass
    \/ SecondPassLine
    \/ EndSecondPass
    \/ WriteOutput
    \/ Cleanup

Spec == Init /\ [][Next]_vars

(***************************************************************************)
(* The macro pre-processor (macr.c).  macro() reads the .as file line by   *)
(* line with fgets(line, SIZE_LINE, ...); the input files here have lines  *)
(* of fewer than SIZE_LINE - 1 characters, each ending with a newline, so  *)
(* every fgets returns one whole line.                                     *)
(***************************************************************************)
WhiteSet == {" ", "\t", "\n"}

RECURSIVE SkipWhite(_, _)
SkipWhite(s, i) == IF Ch(s, i) \in WhiteSet THEN SkipWhite(s, i + 1) ELSE i

\* strstr(s, t): the index of the first occurrence of t in s, or -1 for NULL
strstr(s, t) ==
    LET hits == {i \in 0..(Len(s) - Len(t)) : Slice(s, i, i + Len(t)) = t}
    IN IF hits = {} THEN -1 ELSE CHOOSE i \in hits : \A h \in hits : i <= h

\* the conversion %s of sscanf applied to s from index i: it skips white
\* space and stores the characters up to the next white space; with nothing
\* left to read it fails and stores nothing
scan_s(s, i) ==
    LET a == SkipWhite(s, i)
        e == ScanTo(s, a, WhiteSet)
    IN [matched |-> e > a, word |-> Slice(s, a, e)]

\* what a char array nothing was stored in may hold
Indeterminate == {"", "M", "aF", "zz"}

RECURSIVE hash_loop(_, _, _)
hash_loop(str, i, h) ==
    IF Ch(str, i) = NUL THEN h ELSE hash_loop(str, i + 1, h * 31 + Ord(Ch(str, i)))
\* the names here are short: the unsigned sum does not wrap around
hash(str) == hash_loop(str, 0, 0) % TABLE_SIZE

\* add_macro: the new Macro goes to the end of its bucket's chain
add_macro(tab, name) ==
    [table |-> [tab EXCEPT ![hash(name)] = Append(@, [name |-> name, lines |-> <<>>])],
     macro |-> [b |-> hash(name), k |-> Len(tab[hash(name)]) + 1]]

\* find_macro: the first Macro of the bucket's chain with that name
find_macro(tab, name) ==
    LET chain == tab[hash(name)]
        hits == {k \in 1..Len(chain) : chain[k].name = name}
    IN IF hits = {} THEN NoMacro
       ELSE [b |-> hash(name), k |-> CHOOSE k \in hits : \A h \in hits : k <= h]

\* the branch of the loop body a line takes
macro_branch_body_first(line, open) ==
    IF open /\ strstr(line, "endmacr") = -1 THEN "body"
    ELSE IF strstr(line, "macr ") = 0 THEN "define"
    ELSE IF strstr(line, "endmacr") # -1 THEN "end"
    ELSE "text"

macro_branch_open_kept(line, open) ==
    IF strstr(line, "macr ") = 0 THEN (IF open THEN "body" ELSE "define")
    ELSE IF strstr(line, "endmacr") # -1 THEN "end"
    ELSE IF open THEN "body"
    ELSE "text"

macro_branch(line, open) ==
    IF strstr(line, "macr ") = 0 THEN "define"
    ELSE IF strstr(line, "endmacr") # -1 THEN "end"
    ELSE IF open THEN "body"
    ELSE "text"

MacroLines ==
    { "macr M\n", "macr aF\n", "endmacr\n", " M x\n", "aF\n", "inc r0\n", "\n",
      "x endmacr\n" }
MacroExamples ==
    { <<"macr M\n", "inc r0\n", "inc r1\n", "endmacr\n", "M\n", "M\n">>,
      <<"macr M\n", "endmacr\n", "macr M\n", "inc r0\n", "endmacr\n", "M\n">>,
      <<"macr \n", "inc r0\n", "endmacr\n", "zz\n", "inc r1\n">>,
      <<"macr aF\n", "inc r0\n", "endmacr\n", "macr M\n", "aF\n", "endmacr\n", "M\n">> }
BigMacro ==
    <<"macr M\n">> \o [k \in 1..BigBody |-> "inc r0\n"] \o <<"endmacr\n", "M\n">>
Sources ==
    (UNION {[1..n -> MacroLines] : n \in 0..MaxSource}) \cup MacroExamples \cup {BigMacro}

\* the assembler proper has not started
AssemblerAtRest ==
    /\ file = <<>>
    /\ pc = "done"
    /\ ln = 1
    /\ eof = FALSE
    /\ temp_line = ""
    /\ ic = IC_INIT_VALUE
    /\ dc = 0
    /\ icf = 0
    /\ dcf = 0
    /\ is_success = TRUE
    /\ code_img = <<>>
    /\ data_img = <<>>
    /\ symbol_table = <<>>
    /\ diag = <<>>
    /\ oob = FALSE
    /\ out = NoOutput

assembler_vars == <<file, pc, ln, eof, temp_line, ic, dc, icf, dcf, is_success,
                    code_img, data_img, symbol_table, diag, oob, out>>

\* macro() has opened both files and called init_table()
MacroInit ==
    /\ AssemblerAtRest
    /\ as_file \in Sources
    /\ input = as_file
    /\ run = 1
    /\ mpc = "read"
    /\ mln = 1
    /\ isMacroOpen = FALSE
    /\ currentMacro = NoMacro
    /\ macro_table = init_table
    /\ am_file = <<>>

\* a line starting with "macr ": sscanf(line, "macr %s\n", macroName) and
\* add_macro(macroName); macroName is not initialised
DefineMacro ==
    /\ mpc = "read"
    /\ mln <= Len(input)
    /\ macro_branch(input[mln], isMacroOpen) = "define"
    /\ \E macroName \in IF scan_s(input[mln], 4).matched
                        THEN {scan_s(input[mln], 4).word} ELSE Indeterminate :
          /\ macro_table' = add_macro(macro_table, macroName).table
          /\ currentMacro' = add_macro(macro_table, macroName).macro
    /\ isMacroOpen' = TRUE
    /\ mln' = mln + 1
    /\ UNCHANGED <<as_file, input, run, mpc, am_file>>
    /\ UNCHANGED assembler_vars

\* a line with "endmacr" somewhere in it
EndMacro ==
    /\ mpc = "read"
    /\ mln <= Len(input)
    /\ macro_branch(input[mln], isMacroOpen) = "end"
    /\ isMacroOpen' = FALSE
    /\ currentMacro' = NoMacro
    /\ mln' = mln + 1
    /\ UNCHANGED <<as_file, input, run, mpc, macro_table, am_file>>
    /\ UNCHANGED assembler_vars

\* a line of a macro body: stored while the Macro has room, else dropped
\* with a message
StoreLine ==
    /\ mpc = "read"
    /\ mln <= Len(input)
    /\ macro_branch(input[mln], isMacroOpen) = "body"
    /\ macro_table' =
          IF currentMacro # NoMacro
             /\ Len(macro_table[currentMacro.b][currentMacro.k].lines) < SIZE_LINE
          THEN [macro_table EXCEPT ![currentMacro.b][currentMacro.k].lines =
                                       Append(@, input[mln])]
          ELSE macro_table
    /\ mln' = mln + 1
    /\ UNCHANGED <<as_file, input, run, mpc, isMacroOpen, currentMacro, am_file>>
    /\ UNCHANGED assembler_vars

\* a line outside a definition: sscanf(line, "%s\n", firstWord) and
\* find_macro(firstWord); firstWord is not initialised
EmitLine ==
    /\ mpc = "read"
    /\ mln <= Len(input)
    /\ macro_branch(input[mln], isMacroOpen) = "text"
    /\ \E firstWord \in IF scan_s(input[mln], 0).matched
                        THEN {scan_s(input[mln], 0).word} ELSE Indeterminate :
       \E foundMacro \in {find_macro(macro_table, firstWord)} :
          am_file' = IF foundMacro # NoMacro
                     THEN am_file \o macro_table[foundMacro.b][foundMacro.k].lines
                     ELSE Append(am_file, input[mln])
    /\ mln' = mln + 1
    /\ UNCHANGED <<as_file, input, run, mpc, isMacroOpen, currentMacro, macro_table>>
    /\ UNCHANGED assembler_vars

\* fgets returns NULL: the files are closed
EndOfFile ==
    /\ mpc = "read"
    /\ mln > Len(input)
    /\ mpc' = "done"
    /\ UNCHANGED <<as_file, input, run, mln, isMacroOpen, currentMacro, macro_table,
                   am_file>>
    /\ UNCHANGED assembler_vars

\* the pipeline is run again, on the .am file it produced
Rerun ==
    /\ mpc = "done"
    /\ run = 1
    /\ input' = am_file
    /\ run' = 2
    /\ mpc' = "read"
    /\ mln' = 1
    /\ isMacroOpen' = FALSE
    /\ currentMacro' = NoMacro
    /\ macro_table' = init_table
    /\ am_file' = <<>>
    /\ UNCHANGED as_file
    /\ UNCHANGED assembler_vars

MacroNext ==
    \/ DefineMacro
    \/ EndMacro
    \/ StoreLine
    \/ EmitLine
    \/ EndOfFile
    \/ Rerun

MacroSpec == MacroInit /\ [][MacroNext]_vars


(***************************************************************************)
(* The properties.                                                         *)
(***************************************************************************)
Keyed(types) == {p \in DOMAIN symbol_table : symbol_table[p].type \in types}
Reported(pass, msg) == \E k \in DOMAIN diag : diag[k].pass = pass /\ diag[k].msg = msg

\* C1: whenever a line-level diagnostic has been reported for the file in
\* the first or the second pass, the file's success flag is FALSE and
\* write_output_files has not been called.
C1_DiagnosticFailsFile ==
    diag # <<>> => (~is_success /\ ~out.called)

\* C2: when the second pass has finished and the output is about to be
\* written, every code-image slot below ICF - 100 holds a machine word.
C2_EverySlotPopulated ==
    pc = "write" =>
        \A k \in 0..(icf - IC_INIT_VALUE - 1) :
            k \in DOMAIN code_img /\ code_img[k] \notin {NULLP, GARBAGE}

\* C3: every ENTRY entry of the symbol table has a CODE or DATA entry with
\* the same name and the same value.
C3_EntryMatchesDefinition ==
    \A p \in Keyed({ENTRY_SYMBOL}) :
        \E q \in Keyed({CODE_SYMBOL, DATA_SYMBOL}) :
            /\ symbol_table[q].key = symbol_table[p].key
            /\ symbol_table[q].value = symbol_table[p].value

\* an .entry of a DATA symbol that lies above a non-empty code segment
C3_Witness ==
    \E p \in Keyed({ENTRY_SYMBOL}) : \E q \in Keyed({DATA_SYMBOL}) :
        /\ symbol_table[q].key = symbol_table[p].key
        /\ symbol_table[q].value = symbol_table[p].value
        /\ symbol_table[p].value >= icf
        /\ icf > IC_INIT_VALUE

\* C4: every EXTERNAL_REFERENCE entry of the symbol table has an EXTERNAL
\* entry with the same name.
C4_ReferenceHasExternal ==
    \A p \in Keyed({EXTERNAL_REFERENCE}) :
        \E q \in Keyed({EXTERNAL_SYMBOL}) :
            symbol_table[q].key = symbol_table[p].key

\* the second pass has recorded a reference to an external symbol
C4_Witness ==
    /\ Keyed({EXTERNAL_REFERENCE}) # {}
    /\ pc = "spass"

\* C5: no two symbol-table entries of kind CODE, DATA or EXTERNAL have the
\* same name.
C5_DefinitionsUnique ==
    \A p, q \in Keyed({CODE_SYMBOL, DATA_SYMBOL, EXTERNAL_SYMBOL}) :
        symbol_table[p].key = symbol_table[q].key => p = q


\* C6: the step that ends a successful first pass adds ICF to the value of
\* every DATA symbol, which was a DC offset of the first pass, and leaves
\* every other entry as it was; while the second pass runs and when it has
\* finished every DATA symbol's value lies between ICF and ICF + DCF, ICF
\* having been added once.
C6_DataRebasedOnce ==
    /\ [][(pc = "fpass" /\ pc' = "spass") =>
            /\ DOMAIN symbol_table' = DOMAIN symbol_table
            /\ \A p \in DOMAIN symbol_table :
                  IF symbol_table[p].type = DATA_SYMBOL
                  THEN /\ symbol_table[p].value \in 0..dc
                       /\ symbol_table'[p] =
                              [symbol_table[p] EXCEPT !.value = @ + icf']
                       /\ symbol_table'[p].value >= icf'
                  ELSE symbol_table'[p] = symbol_table[p]]_vars
    /\ [](pc \in {"spass", "write"} =>
            \A p \in Keyed({DATA_SYMBOL}) :
                symbol_table[p].value \in icf..(icf + dcf))

\* the second pass starts with a CODE symbol and a DATA symbol whose offset
\* in the data image is not 0, above a code segment that is not empty
C6_Witness ==
    /\ pc = "spass"
    /\ ln = 1
    /\ icf > IC_INIT_VALUE
    /\ Keyed({CODE_SYMBOL}) # {}
    /\ \E p \in Keyed({DATA_SYMBOL}) : symbol_table[p].value > icf

\* C7: no write goes past the end of the code image or of the data image,
\* and ICF - 100 + DCF <= 1200 whenever the output has been written.
C7_ImagesNeverOverflow ==
    /\ ~oob
    /\ out.written => icf - IC_INIT_VALUE + dcf <= CODE_ARR_IMG_LENGTH

\* C8: once the second pass has reported a direct-address operand whose
\* symbol is not in the table, the file's success flag is FALSE.
C8_UnknownSymbolFailsFile ==
    (Reported(2, "The symbol not found") /\ pc = "spass") => ~is_success

Declares(content) ==
    LET t == process_line_fpass(content, IC_INIT_VALUE, 0, <<>>, <<>>, <<>>).symbol_table
    IN IF t # <<>> /\ t[1].type \in {CODE_SYMBOL, DATA_SYMBOL} THEN t[1].key ELSE ""

\* the lines before line n that declare a label an earlier line declared
Redeclared(n) ==
    {j \in 1..(n - 1) : Declares(file[j]) # ""
                        /\ \E i \in 1..(j - 1) : Declares(file[i]) = Declares(file[j])}

\* C10: the first pass, on a line declaring a label that an earlier line
\* declared, prints "Symbol ... is already defined." with the label, adds no
\* entry, clears the success flag and goes on to the next line; after such a
\* line write_output_files is never called, and the first loop ends only
\* after the last line of the file.
C10_DuplicateLabel ==
    /\ [][(pc = "fpass" /\ ln <= Len(file) /\ ln \in Redeclared(ln + 1)) =>
            /\ diag' = Append(diag, [pass |-> 1, line |-> ln,
                                     msg |-> "Symbol is already defined.",
                                     arg |-> Declares(file[ln])])
            /\ symbol_table' = symbol_table
            /\ ~is_success'
            /\ pc' = "fpass"
            /\ ln' = ln + 1]_vars
    /\ [](Redeclared(ln) # {} =>
            /\ ~out.called
            /\ pc # "fpass" => ln = Len(file) + 1)

\* the file is done, a line redeclared a label and a later line's error was
\* reported as well
C10_Witness ==
    /\ pc = "done"
    /\ \E j \in Redeclared(ln) : \E k \in DOMAIN diag :
          diag[k].line > j /\ diag[k].msg # "Symbol is already defined."

\* the image slot at address a holds the word the second pass writes for an
\* operand naming an external symbol: a data word, payload 0, ARE 1
ExternalOperandAt(a) ==
    /\ (a - IC_INIT_VALUE) \in DOMAIN code_img
    /\ code_img[a - IC_INIT_VALUE].tag = "word"
    /\ code_img[a - IC_INIT_VALUE].length = 0
    /\ code_img[a - IC_INIT_VALUE].word = [ARE |-> 1, data |-> 0]

\* C11: every EXTERNAL_REFERENCE entry of the symbol table has as value the
\* address of an image slot holding the data word written for that operand
\* (payload 0, ARE 1); for '.extern K' / 'jmp K' / 'stop' the operand word
\* is at 101 and the single EXTERNAL_REFERENCE is (K, 101).
C11_ReferenceValueIsOperandAddress ==
    /\ \A k \in DOMAIN symbol_table :
          symbol_table[k].type = EXTERNAL_REFERENCE =>
              ExternalOperandAt(symbol_table[k].value)
    /\ (file = <<".extern K\n", "jmp K\n", "stop\n">> /\ pc = "write") =>
          /\ ExternalOperandAt(101)
          /\ filter_table_by_type(symbol_table, EXTERNAL_REFERENCE)
                = <<[key |-> "K", value |-> 101, type |-> EXTERNAL_REFERENCE]>>

\* the image slots holding the word of a direct-address operand: the slot
\* after a code word whose first operand is direct, and the last slot of an
\* instruction whose second operand is direct
DirectOperandSlots ==
    {s \in DOMAIN code_img :
        /\ code_img[s].tag = "word"
        /\ code_img[s].length = 0
        /\ \E k \in DOMAIN code_img :
              /\ code_img[k].tag = "word"
              /\ code_img[k].length > 1
              /\ \/ code_img[k].word.src_addressing = DIRECT_ADDR /\ s = k + 1
                 \/ /\ code_img[k].word.dest_addressing = DIRECT_ADDR
                    /\ s = k + code_img[k].length - 1}

\* C12: the word the second pass writes into the slot of a direct-address
\* operand naming a CODE or DATA symbol has the symbol's rebased value as
\* payload and ARE = 2 (an operand naming an EXTERNAL symbol has payload 0
\* and ARE = 1).
C12_RelocatableOperandWord ==
    \A s \in DirectOperandSlots :
        \/ code_img[s].word = [ARE |-> 1, data |-> 0]
        \/ /\ code_img[s].word.ARE = 2
           /\ \E k \in DOMAIN symbol_table :
                 /\ symbol_table[k].type \in {CODE_SYMBOL, DATA_SYMBOL}
                 /\ symbol_table[k].value = code_img[s].word.data

\* C13: for 'START: mov #-5, r3' / 'stop' the first pass ends with IC = 103;
\* slot 100 is the mov code word (opcode 0, src_addressing 0,
\* dest_addressing 3, dest_register 3), slot 101 a data word with payload
\* 0xFFB (-5 masked to 12 bits) and ARE 4, slot 102 the stop code word.
C13_MovImmediateExample ==
    (file = <<"START: mov #-5, r3\n", "stop\n">> /\ pc = "fpass" /\ ln = 3) =>
        /\ ic = 103
        /\ {0, 1, 2} \subseteq DOMAIN code_img
        /\ code_img[0].tag = "word"
        /\ code_img[0].length > 0
        /\ code_img[0].word.opcode = 0
        /\ code_img[0].word.src_addressing = IMMEDIATE_ADDR
        /\ code_img[0].word.dest_addressing = REGISTER_ADDR
        /\ code_img[0].word.dest_register = 3
        /\ code_img[1] = data_machine_word([ARE |-> 4, data |-> 4091])
        /\ code_img[2].tag = "word"
        /\ code_img[2].length = 1
        /\ code_img[2].word.opcode = get_opcode_func("stop").op

\* the operands of the instruction on an unlabelled line, as process_code
\* finds them after the operation name
LineOperands(content) ==
    LET i == MOVE_TO_NOT_WHITE(content, 0)
        e == ScanTo(content, i, {"\t", " ", "\n"})
    IN analyze_operands(content, e).operands

\* the register index 0..7 an operand in register or register-indirect mode
\* names
RegisterIndex(operand) ==
    IF Ch(operand, 0) = "*" THEN DigitVal(Ch(operand, 2)) ELSE DigitVal(Ch(operand, 1))

\* the line is an instruction whose two operands are both in a register mode
TwoRegisterLine(content) ==
    /\ process_line_fpass(content, IC_INIT_VALUE, 0, <<>>, <<>>, <<>>).ic > IC_INIT_VALUE
    /\ Len(LineOperands(content)) = 2
    /\ is_register_mode(get_addressing_type(LineOperands(content)[1]))
    /\ is_register_mode(get_addressing_type(LineOperands(content)[2]))

\* C14: an instruction whose two operands are both register or
\* register-indirect gets exactly one extra data word, so it has length 2 and
\* IC advances by 2, and that word has ARE = 4 and payload
\* (src_reg << 3) | (dest_reg << 6), the operands' register indices; for
\* 'add r2, r5' the fields are 2 and 5.
C14_TwoRegistersShareOneWord ==
    /\ \A k \in DOMAIN code_img :
          (/\ code_img[k].tag = "word"
           /\ code_img[k].length > 0
           /\ is_register_mode(code_img[k].word.src_addressing)
           /\ is_register_mode(code_img[k].word.dest_addressing)) =>
              /\ code_img[k].length = 2
              /\ (k + 1) \in DOMAIN code_img
              /\ code_img[k + 1].tag = "word"
              /\ code_img[k + 1].length = 0
              /\ code_img[k + 1].word.ARE = 4
    /\ (Len(file) = 1 /\ ln = 2 /\ TwoRegisterLine(file[1])) =>
          /\ ic = IC_INIT_VALUE + 2
          /\ code_img[1] = data_machine_word(
                [ARE |-> 4,
                 data |-> RegisterIndex(LineOperands(file[1])[1]) * 8
                          + RegisterIndex(LineOperands(file[1])[2]) * 64])

\* the line opens or closes a macro definition for macro()
Delimits(line) == strstr(line, "macr ") = 0 \/ strstr(line, "endmacr") # -1

\* C15: macro() run on a file it has itself produced changes nothing: the
\* output of the second run is identical to its input, the .am text of the
\* first run; that text has no line that opens or closes a macro definition,
\* so the second run defines no macro and finds none.
C15_ExpansionIdempotent ==
    /\ (mpc = "done" /\ run = 1) => \A k \in DOMAIN am_file : ~Delimits(am_file[k])
    /\ run = 2 =>
          /\ macro_table = init_table
          /\ ~isMacroOpen
          /\ am_file = SubSeq(input, 1, mln - 1)
          /\ mpc = "done" => am_file = input

\* the second run is over; the first one had dropped a definition and
\* expanded calls of its macro, so that a body line occurs more often in the
\* .am text than in the .as text
C15_Witness ==
    /\ run = 2
    /\ mpc = "done"
    /\ \E k \in DOMAIN as_file : Delimits(as_file[k])
    /\ Cardinality({k \in DOMAIN am_file : am_file[k] = "inc r0\n"})
          > Cardinality({k \in DOMAIN as_file : as_file[k] = "inc r0\n"})

\* what the line at hand must add to the output when it stands outside a
\* definition: the stored body of the macro its first token names, or the
\* line itself when that token names no macro (or there is no token)
Expansion(line) ==
    LET w == scan_s(line, 0)
        found == IF w.matched THEN find_macro(macro_table, w.word) ELSE NoMacro
    IN IF found # NoMacro THEN macro_table[found.b][found.k].lines ELSE <<line>>

\* C16: while macro() is outside a macro definition, a line whose first
\* token is the name of a macro defined earlier is replaced in the output by
\* the stored body lines of that macro, and every other line (that does not
\* itself open or close a definition) is copied unchanged; 'macr M' /
\* 'inc r0' / 'inc r1' / 'endmacr' followed by two lines 'M' gives exactly
\* the four inc lines.
C16_CallReplacedByBody ==
    /\ [][(/\ mpc = "read"
           /\ run = 1
           /\ mln <= Len(input)
           /\ ~isMacroOpen
           /\ strstr(input[mln], "macr ") # 0
           /\ scan_s(input[mln], 0).word # "endmacr") =>
              am_file' = am_file \o Expansion(input[mln])]_vars
    /\ [](/\ as_file = <<"macr M\n", "inc r0\n", "inc r1\n", "endmacr\n", "M\n", "M\n">>
          /\ run = 1
          /\ mpc = "done"
          => am_file = <<"inc r0\n", "inc r1\n", "inc r0\n", "inc r1\n">>)

\* C17: a file whose only line is '.data 1,2,3' assembles successfully: once
\* process_file is past write_output_files, the .ob file is written, with
\* the header '0 3' and exactly three lines, the values 1, 2, 3 at the
\* addresses 100, 101, 102.
C17_DataOnlyFile ==
    (file = <<".data 1,2,3\n">> /\ pc \notin {"fpass", "spass", "write"}) =>
        /\ pc # "crashed"
        /\ is_success
        /\ out.written
        /\ out.ob = [header |-> <<0, 3>>,
                     lines |-> <<[addr |-> 100, val |-> 1],
                                 [addr |-> 101, val |-> 2],
                                 [addr |-> 102, val |-> 3]>>]

\* the entries of a table, or the lines of an output file, are in
\* non-decreasing order of value
Ordered(tab) == \A p \in 1..(Len(tab) - 1) : tab[p].value <= tab[p + 1].value

RECURSIVE FirstPassAfter(_)
FirstPassAfter(n) ==
    IF n = 0
    THEN [ic |-> IC_INIT_VALUE, dc |-> 0, code_img |-> <<>>, data_img |-> <<>>,
          symbol_table |-> <<>>]
    ELSE LET Line(b) == process_line_fpass(file[n], b.ic, b.dc, b.code_img, b.data_img,
                                           b.symbol_table)
         IN Line(FirstPassAfter(n - 1))

\* C19: in the second pass of a file (so the first pass succeeded), as long
\* as the second pass has reported no error, IC before each line is what it
\* was before that line in the first pass, so an instruction is met at the
\* address of its code word and no other line changes IC, and after the last
\* line IC equals ICF.
C19_SecondPassInLockstep ==
    (pc = "spass" /\ is_success) =>
        /\ ln <= Len(file) => ic = FirstPassAfter(ln - 1).ic
        /\ ln > Len(file) => ic = icf

\* the operands of the instruction on a line, after its label if it has one
InstructionOperands(content) ==
    LET colon == strchr(content, ":")
        i == MOVE_TO_NOT_WHITE(content, IF colon >= 0 THEN colon + 1 ELSE 0)
        e == ScanTo(content, i, {"\t", " ", "\n"})
    IN analyze_operands(content, e).operands

RegisterModes == {REGISTER_INDIRECT_ADDR, REGISTER_ADDR}

\* two operands, both in a register mode
RegisterPair(ops) ==
    /\ Len(ops) = 2
    /\ get_addressing_type(ops[1]) \in RegisterModes
    /\ get_addressing_type(ops[2]) \in RegisterModes

\* the number of image slots of an instruction with these operands
SlotsOf(ops) == 1 + (IF RegisterPair(ops) THEN 1 ELSE Len(ops))

\* the first pass accepts the line at hand as an instruction: it returns
\* TRUE and has stored a code word at IC
AcceptsInstruction ==
    /\ pc = "fpass"
    /\ ln <= Len(file)
    /\ \E r \in {process_line_fpass(file[ln], ic, dc, code_img, data_img, symbol_table)} :
          /\ r.ret
          /\ (ic - IC_INIT_VALUE) \in DOMAIN r.code_img
          /\ (ic - IC_INIT_VALUE) \notin DOMAIN code_img

\* C20: for every instruction the first pass accepts, IC advances by the
\* number of image slots of the instruction (1 for the code word, plus 1 for
\* a register pair or else 1 per operand) and the code word's length field
\* is that number; the slot of a direct-address operand is counted but not
\* written, the slot of any other operand holds a data word.
C20_AdvanceEqualsSlots ==
    [][AcceptsInstruction =>
        \E ops \in {InstructionOperands(file[ln])} :
            /\ ic' = ic + SlotsOf(ops)
            /\ code_img'[ic - IC_INIT_VALUE].length = SlotsOf(ops)
            /\ DOMAIN code_img' \subseteq (DOMAIN code_img) \cup
                    {k - IC_INIT_VALUE : k \in ic..(ic' - 1)}
            /\ RegisterPair(ops) =>
                  /\ (ic + 1 - IC_INIT_VALUE) \in DOMAIN code_img'
                  /\ code_img'[ic + 1 - IC_INIT_VALUE].length = 0
            /\ ~RegisterPair(ops) =>
                  \A j \in 1..Len(ops) :
                     IF get_addressing_type(ops[j]) = DIRECT_ADDR
                     THEN (ic + j - IC_INIT_VALUE) \notin DOMAIN code_img'
                     ELSE /\ (ic + j - IC_INIT_VALUE) \in DOMAIN code_img'
                          /\ code_img'[ic + j - IC_INIT_VALUE].length = 0]_vars

\* the first pass has gone through 'Y: stop', 'mov X, r1', 'cmp r1, #3' and
\* 'lea X, *r2': ten slots, those of the two operands X not written
C20_Witness ==
    /\ file = <<"X: .data 7\n", "Y: stop\n", "mov X, r1\n", "cmp r1, #3\n", "lea X, *r2\n">>
    /\ pc = "fpass"
    /\ ln = 6
    /\ is_success
    /\ ic = IC_INIT_VALUE + 10
    /\ code_img[1].length = 3
    /\ 2 \notin DOMAIN code_img
    /\ 8 \notin DOMAIN code_img
    /\ code_img[4].length = 3

\* the first pass, starting from its initial state, accepts the line as an
\* instruction
AcceptsInstructionLine(content) ==
    \E r \in {process_line_fpass(content, IC_INIT_VALUE, 0, <<>>, <<>>, <<>>)} :
        r.ret /\ 0 \in DOMAIN r.code_img

\* bits lo..lo+2 of a payload
Field3(data, lo) == (data \div (2 ^ lo)) % 8

\* C21: for an operand '*rN' the register field of the code word for that
\* position stays 0, and N is encoded in the extra data word that follows:
\* in bits 3..5 for the first operand, in bits 6..8 for the second (the word
\* is the one shared word of a register pair, else the operand's own word).
C21_IndirectRegisterInDataWord ==
    (Len(file) = 1 /\ pc = "fpass" /\ ln = 2 /\ AcceptsInstructionLine(file[1])) =>
        \A j \in 1..Len(InstructionOperands(file[1])) :
            get_addressing_type(InstructionOperands(file[1])[j]) = REGISTER_INDIRECT_ADDR =>
                \E slot \in {IF RegisterPair(InstructionOperands(file[1])) THEN 1 ELSE j} :
                    /\ (IF j = 1 THEN code_img[0].word.src_register
                                 ELSE code_img[0].word.dest_register) = 0
                    /\ slot \in DOMAIN code_img
                    /\ code_img[slot].length = 0
                    /\ Field3(code_img[slot].word.data, 3 * j)
                          = RegisterIndex(InstructionOperands(file[1])[j])

\* the (opcode, funct) pair the per-opcode table gives each mnemonic
OpcodeTable ==
    << <<"mov", 0, 0>>, <<"cmp", 1, 0>>, <<"add", 2, 1>>, <<"sub", 2, 2>>,
       <<"lea", 4, 0>>, <<"clr", 5, 1>>, <<"not", 5, 2>>, <<"inc", 5, 3>>,
       <<"dec", 5, 4>>, <<"jmp", 9, 1>>, <<"bne", 9, 2>>, <<"jsr", 9, 3>>,
       <<"red", 11, 0>>, <<"prn", 12, 0>>, <<"rts", 14, 0>>, <<"stop", 15, 0>> >>

\* the operation name process_code reads on an unlabelled line
Mnemonic(content) ==
    LET i == MOVE_TO_NOT_WHITE(content, 0)
    IN Slice(content, i, ScanTo(content, i, {"\t", " ", "\n"}))

\* C22: the first pass gives the code word of an instruction the opcode and
\* funct of the per-opcode table for its mnemonic (as get_opcode_func found
\* them), and a line whose operation name is not one of the 16 mnemonics is
\* rejected as an unrecognized instruction.
C22_OpcodeTable ==
    (Len(file) = 1 /\ pc = "fpass" /\ ln = 2 /\ strchr(file[1], ":") = -1
       /\ Ch(file[1], MOVE_TO_NOT_WHITE(file[1], 0)) \notin {".", "\n", ";"}) =>
        /\ \A k \in 1..Len(OpcodeTable) :
              OpcodeTable[k][1] = Mnemonic(file[1]) =>
                  /\ get_opcode_func(Mnemonic(file[1])).op = OpcodeTable[k][2]
                  /\ get_opcode_func(Mnemonic(file[1])).fun = OpcodeTable[k][3]
                  /\ 0 \in DOMAIN code_img =>
                        /\ code_img[0].word.opcode = OpcodeTable[k][2]
                        /\ code_img[0].word.funct = OpcodeTable[k][3]
        /\ (\A k \in 1..Len(OpcodeTable) : OpcodeTable[k][1] # Mnemonic(file[1])) =>
              /\ get_opcode_func(Mnemonic(file[1])).op = NONE_OP
              /\ Reported(1, "Unrecognized instruction")
              /\ ~is_success

\* the per-opcode operand table: mnemonic, number of operands, the modes
\* permitted for the source and for the destination operand (an instruction
\* with one operand has a destination only)
OperandTable ==
    LET I == IMMEDIATE_ADDR
        D == DIRECT_ADDR
        S == REGISTER_INDIRECT_ADDR
        R == REGISTER_ADDR
    IN << <<"mov", 2, {I, D, S, R}, {D, S, R}>>,
          <<"cmp", 2, {I, D, S, R}, {I, D, S, R}>>,
          <<"add", 2, {I, D, S, R}, {D, S, R}>>,
          <<"sub", 2, {I, D, S, R}, {D, S, R}>>,
          <<"lea", 2, {D, S}, {D, S, R}>>,
          <<"clr", 1, {}, {D, S, R}>>,
          <<"not", 1, {}, {D, S, R}>>,
          <<"inc", 1, {}, {D, S, R}>>,
          <<"dec", 1, {}, {D, S, R}>>,
          <<"jmp", 1, {}, {D, S}>>,
          <<"bne", 1, {}, {D, S}>>,
          <<"jsr", 1, {}, {D, S}>>,
          <<"red", 1, {}, {D, S, R}>>,
          <<"prn", 1, {}, {I, D, S, R}>>,
          <<"rts", 0, {}, {}>>,
          <<"stop", 0, {}, {}>> >>

\* the table permits the mnemonic with these operands
Permitted(name, ops) ==
    \E k \in 1..Len(OperandTable) :
        /\ OperandTable[k][1] = name
        /\ Len(ops) = OperandTable[k][2]
        /\ Len(ops) = 2 => /\ get_addressing_type(ops[1]) \in OperandTable[k][3]
                           /\ get_addressing_type(ops[2]) \in OperandTable[k][4]
        /\ Len(ops) = 1 => get_addressing_type(ops[1]) \in OperandTable[k][4]

\* C23: an instruction is accepted (get_code_word returns a code word, which
\* the first pass stores at IC, and the line succeeds) exactly when its
\* operand count is the one of the per-opcode table for its mnemonic and the
\* addressing mode of each operand is permitted for its position; every
\* other combination fails the line and stores nothing.
C23_OperandsValidatedByTable ==
    (Len(file) = 1 /\ file[1] \in InstructionLines /\ pc = "fpass" /\ ln = 2) =>
        IF Permitted(Mnemonic(file[1]), LineOperands(file[1]))
        THEN /\ is_success
             /\ diag = <<>>
             /\ 0 \in DOMAIN code_img
             /\ code_img[0].length = ic - IC_INIT_VALUE
        ELSE /\ ~is_success
             /\ code_img = <<>>
             /\ ic = IC_INIT_VALUE

\* an immediate operand was rejected as the source of lea
C23_Witness ==
    /\ file = <<"lea #3, r1\n">>
    /\ pc = "fpass"
    /\ ln = 2
    /\ ~is_success
    /\ Reported(1, "Invalid addressing mode for first operand.")
    /\ code_img = <<>>

\* the pieces of the text from index i up to the end of the line, cut at the
\* commas
RECURSIVE SplitCommas(_, _)
SplitCommas(s, i) ==
    LET e == ScanTo(s, i, {",", "\n"})
    IN IF Ch(s, e) = "," THEN <<Slice(s, i, e)>> \o SplitCommas(s, e + 1)
       ELSE <<Slice(s, i, e)>>

\* a piece without the blanks and tabs around it
RECURSIVE TrimRight(_)
TrimRight(s) ==
    IF s # "" /\ Ch(s, Len(s) - 1) \in {" ", "\t"} THEN TrimRight(Slice(s, 0, Len(s) - 1))
    ELSE s
Trim(s) == TrimRight(From(s, MOVE_TO_NOT_WHITE(s, 0)))

\* the arguments of the directive (".data" or ".string") of a line
DirectiveArgs(content, directive) ==
    SplitCommas(content, strstr(content, directive) + Len(directive))

\* the label of a line, "" when it has none
LabelOf(content) ==
    IF strchr(content, ":") = -1 \/ strchr(content, ":") > strstr(content, ".")
    THEN "" ELSE Trim(Slice(content, 0, strchr(content, ":")))

\* a .data line with a list of integers separated by single commas, and a
\* valid label or none
ValidDataLine(content) ==
    /\ strstr(content, ".data") # -1
    /\ Trim(Slice(content, 0, strstr(content, ".data"))) \in {"", LabelOf(content) \o ":"}
    /\ LabelOf(content) # "" => is_valid_label_name(LabelOf(content))
    /\ \A k \in DOMAIN DirectiveArgs(content, ".data") :
          is_int(Trim(DirectiveArgs(content, ".data")[k]))

\* C24: a valid '.data v1,...,vn' line, whose label (if any) is not yet
\* defined, appends v1..vn in order to the data image at DC..DC+n-1 and
\* increases DC by n; its label is inserted as a DATA symbol with the DC in
\* force before v1; nothing else changes.
C24_DataAppended ==
    [][(/\ pc = "fpass"
        /\ ln <= Len(file)
        /\ ValidDataLine(file[ln])
        /\ find_by_types(symbol_table, LabelOf(file[ln]),
                         {EXTERNAL_SYMBOL, DATA_SYMBOL, CODE_SYMBOL}) = 0) =>
          \E args \in {DirectiveArgs(file[ln], ".data")} :
             /\ dc' = dc + Len(args)
             /\ Len(data_img') = dc'
             /\ SubSeq(data_img', 1, dc) = data_img
             /\ \A k \in 1..Len(args) : data_img'[dc + k] = strtol(Trim(args[k]))
             /\ symbol_table' =
                   IF LabelOf(file[ln]) # ""
                   THEN add_table_item(symbol_table, LabelOf(file[ln]), dc, DATA_SYMBOL)
                   ELSE symbol_table
             /\ UNCHANGED <<ic, code_img, is_success, diag>>]_vars

\* the first pass is through 'Z: .data -3 , +4,5', '.data 5, 6' and
\* 'W: .data 0': six values, Z at 0 and W at 5
C24_Witness ==
    /\ file = <<"stop\n", "Z: .data -3 , +4,5\n", ".data 5, 6\n", "W: .data 0\n">>
    /\ pc = "fpass"
    /\ ln = 5
    /\ dc = 6
    /\ data_img = <<-3, 4, 5, 5, 6, 0>>
    /\ \E k \in DOMAIN symbol_table :
          symbol_table[k] = [key |-> "W", value |-> 5, type |-> DATA_SYMBOL]
    /\ \E k \in DOMAIN symbol_table :
          symbol_table[k] = [key |-> "Z", value |-> 0, type |-> DATA_SYMBOL]

\* a .data line whose list has a leading comma, a trailing comma or two
\* commas with nothing between them: one of its pieces is empty
MisplacedComma(content) ==
    /\ strstr(content, ".data") # -1
    /\ Len(DirectiveArgs(content, ".data")) > 1
    /\ \E k \in DOMAIN DirectiveArgs(content, ".data") :
          Trim(DirectiveArgs(content, ".data")[k]) = ""

\* C25: a .data line whose integer list has a leading, a trailing or a
\* doubled comma is rejected: once the first pass has processed it, the
\* file's success flag is FALSE.
C25_MisplacedCommaRejected ==
    \A n \in 1..Len(file) :
        (MisplacedComma(file[n]) /\ (pc # "fpass" \/ ln > n)) => ~is_success

\* the text between the first and the last double quote of a line
Quoted(content) ==
    Slice(content, strchr(content, "\"") + 1, strrchr(content, "\""))

\* a .string line with an opening and a closing quote, and a valid label or
\* none
ValidStringLine(content) ==
    /\ strstr(content, ".string") # -1
    /\ Trim(Slice(content, 0, strstr(content, ".string"))) \in {"", LabelOf(content) \o ":"}
    /\ LabelOf(content) # "" => is_valid_label_name(LabelOf(content))
    /\ strchr(content, "\"") # -1
    /\ strchr(content, "\"") < strrchr(content, "\"")
    /\ Trim(Slice(content, strstr(content, ".string") + 7, strchr(content, "\""))) = ""
    /\ Trim(Slice(content, strrchr(content, "\"") + 1, strchr(content, "\n"))) = ""

\* C26: a valid '.string "c1...cn"' line, whose label (if any) is not yet
\* defined, appends the codes of c1..cn and then one 0 to the data image, so
\* DC increases by n + 1 and the closing quote is not stored; its label
\* becomes a DATA symbol with the DC in force before c1.
C26_StringAppended ==
    [][(/\ pc = "fpass"
        /\ ln <= Len(file)
        /\ ValidStringLine(file[ln])
        /\ dc + Len(Quoted(file[ln])) + 1 <= CODE_ARR_IMG_LENGTH
        /\ find_by_types(symbol_table, LabelOf(file[ln]),
                         {EXTERNAL_SYMBOL, DATA_SYMBOL, CODE_SYMBOL}) = 0) =>
          \E str \in {Quoted(file[ln])} :
             /\ dc' = dc + Len(str) + 1
             /\ data_img' = data_img \o [k \in 1..Len(str) |-> Ord(Ch(str, k - 1))] \o <<0>>
             /\ symbol_table' =
                   IF LabelOf(file[ln]) # ""
                   THEN add_table_item(symbol_table, LabelOf(file[ln]), dc, DATA_SYMBOL)
                   ELSE symbol_table]_vars

\* the line's directive is .entry, with or without white space before it
IsEntryLine(content) ==
    strstr(content, ".entry") = MOVE_TO_NOT_WHITE(content, 0)

\* the argument of an .entry line
EntryArg(content) == scan_s(content, strstr(content, ".entry") + 6).word

\* the entries of the symbol table with this key and one of these types
EntriesOf(key, types) ==
    {k \in DOMAIN symbol_table : symbol_table[k].key = key /\ symbol_table[k].type \in types}

\* C27: once the second pass has gone over an .entry line (with or without
\* leading white space): if its argument is defined as CODE or DATA, the
\* table has exactly one ENTRY entry for it, with the value of the
\* definition; if the argument is EXTERNAL or undefined, the second pass has
\* reported an error, the file has failed and there is no ENTRY entry for it.
C27_EntryResolved ==
    \A n \in 1..Len(file) :
        (IsEntryLine(file[n]) /\ pc = "spass" /\ ln > n) =>
            IF EntriesOf(EntryArg(file[n]), {CODE_SYMBOL, DATA_SYMBOL}) # {}
            THEN /\ Cardinality(EntriesOf(EntryArg(file[n]), {ENTRY_SYMBOL})) = 1
                 /\ \A e \in EntriesOf(EntryArg(file[n]), {ENTRY_SYMBOL}) :
                    \A d \in EntriesOf(EntryArg(file[n]), {CODE_SYMBOL, DATA_SYMBOL}) :
                       symbol_table[e].value = symbol_table[d].value
            ELSE /\ EntriesOf(EntryArg(file[n]), {ENTRY_SYMBOL}) = {}
                 /\ ~is_success
                 /\ \E k \in DOMAIN diag : diag[k].pass = 2 /\ diag[k].line = n

\* a line made of a valid label, its colon and nothing else
LabelOnlyLine(content) ==
    /\ strchr(content, ":") # -1
    /\ is_valid_label_name(Trim(Slice(content, 0, strchr(content, ":"))))
    /\ Ch(content, MOVE_TO_NOT_WHITE(content, strchr(content, ":") + 1)) = "\n"

\* C28: when the first pass is about to process a line made of a valid label
\* followed by nothing, process_line_fpass returns FALSE for it and leaves
\* IC, DC, both images and the symbol table as they are.
C28_LabelOnlyLineRejected ==
    (pc = "fpass" /\ ln <= Len(file) /\ LabelOnlyLine(file[ln])) =>
        \E r \in {process_line_fpass(file[ln], ic, dc, code_img, data_img, symbol_table)} :
            /\ r.ret = FALSE
            /\ r.ic = ic /\ r.dc = dc
            /\ r.code_img = code_img /\ r.data_img = data_img
            /\ r.symbol_table = symbol_table

\* C29: every value printed in a non-header line of the .ob file is at most
\* 15 bits wide, that is between 0 and 0o77777 = 32767.
C29_ObValuesFifteenBits ==
    out.written =>
        \A k \in DOMAIN out.ob.lines : out.ob.lines[k].val \in 0..32767

\* line n of the input is at a definition site: it opens a definition, or a
\* definition opened above it has not been closed above it
DefinitionSite(n) ==
    \E m \in 1..n : /\ strstr(input[m], "macr ") = 0
                    /\ \A j \in (m + 1)..(n - 1) :
                          strstr(input[j], "macr ") = 0 \/ strstr(input[j], "endmacr") = -1

\* the line that ends the body of the definition opened at line m: the next
\* line that opens or closes a definition, or the end of the input
BodyEnd(m) ==
    CHOOSE e \in (m + 1)..(Len(input) + 1) :
        /\ e = Len(input) + 1 \/ Delimits(input[e])
        /\ \A j \in (m + 1)..(e - 1) : ~Delimits(input[j])

\* the body of the definition opened at line m as it is written in the input
\* above line upto, within the room a Macro has
BodyAsWritten(m, upto) ==
    LET last == (IF BodyEnd(m) < upto THEN BodyEnd(m) ELSE upto) - 1
        n == IF last - m < SIZE_LINE THEN last - m ELSE SIZE_LINE
    IN SubSeq(input, m + 1, m + n)

\* every Macro of the table holds the body of a definition as written
BodiesAsWritten ==
    \A b \in DOMAIN macro_table : \A k \in DOMAIN macro_table[b] :
        /\ \A j \in DOMAIN macro_table[b][k].lines : ~Delimits(macro_table[b][k].lines[j])
        /\ \E m \in 1..(mln - 1) :
              /\ strstr(input[m], "macr ") = 0
              /\ macro_table[b][k].lines = BodyAsWritten(m, mln)

=============================================================================
